---- MODULE Spec2Model ----
(***************************************************************************)
(* State-machine model of the goal lifecycle (goal_system.py, GoalSystem)  *)
(* and of the health-monitoring / recovery engine (self_preservation.py,   *)
(* SelfPreservation) of the Self_Evolving_AI repository.                   *)
(*                                                                         *)
(* Two specifications share the module: SpecGoal drives one GoalSystem     *)
(* object, SpecSP drives one SelfPreservation object and its monitoring    *)
(* threads.  Time is time.time() in whole seconds.  Timestamps that the    *)
(* code only writes and never reads back (updated_at, last_reviewed,       *)
(* deadline, a subtask's completed_at) are not part of the state.          *)
(***************************************************************************)
EXTENDS Integers, Sequences, FiniteSets, TLC

VARIABLES
    now,               \* time.time(), seconds
    call,              \* the name of the last API call
    ret,               \* what that call returned (or "raised")
    \* ---- GoalSystem ----
    goals,             \* self.goals: the active collection
    completed_goals,   \* self.completed_goals
    next_review_time,  \* self.next_review_time
    data_file,         \* what _save_data last wrote to the goal data file
    created_count,     \* number of goals created so far (sub-second order of created_at)
    \* ---- SelfPreservation ----
    system_state,      \* self.system_state
    error_log,         \* self.error_log
    component_states,  \* self.component_states
    recovery_counters, \* self.recovery_counters
    last_state_save,   \* self.last_state_save
    backup_dir,        \* the files of self.backup_dir: file name -> modification time and content
    artifacts_written, \* every file name save_system_state has written, with its last modification time
    shutdown_requested,\* self.shutdown_requested
    monitoring_active, \* self.monitoring_active
    monitoring_thread, \* self.monitoring_thread: the thread start_monitoring created last (0: None)
    threads,           \* where each monitoring thread is in _monitoring_loop
    ticker,            \* the thread that ran the last pass of the loop body (0: none yet)
    main_pc,           \* where the calling thread is: idle, or inside a join
    \* ---- health score ----
    health_case,       \* counts given to the health score computation, and the score it gave
    \* ---- a registry mutation and a health evaluation running statement by statement ----
    caller,            \* where the mutating caller is inside update_component_state
    evaluation,        \* where the monitoring thread is inside monitor_system_health
    \* ---- GoalManager ----
    gm_goals,          \* GoalManager.goals: list of goal records
    gm_priorities,     \* GoalManager.priorities: goal id -> priority
    gm_progress,       \* GoalManager.progress: goal id -> progress
    goal_history,      \* GoalManager.goal_history: list of events
    \* ---- Planner ----
    max_steps,         \* Planner.max_steps
    requires_oversight, \* Planner.requires_oversight
    active_plans,      \* Planner.active_plans: plan id -> plan
    plan_history,      \* Planner.plan_history: copies of the plans that were executed
    approved,          \* the plan ids for which approve_plan has returned True
    \* ---- bounding of a run ----
    used,              \* state-changing calls made so far, per operation
    limits             \* how many state-changing calls of each operation this run makes

gvars == <<goals, completed_goals, next_review_time, data_file, created_count>>
svars == <<system_state, error_log, component_states, recovery_counters, last_state_save,
           backup_dir, artifacts_written, shutdown_requested, monitoring_active, monitoring_thread, threads, ticker, main_pc>>
rvars == <<caller, evaluation>>
mvars == <<gm_goals, gm_priorities, gm_progress, goal_history>>
plvars == <<max_steps, requires_oversight, active_plans, plan_history, approved>>
ovars == <<health_case, rvars, mvars, plvars>>
vars == <<now, call, ret, gvars, svars, ovars, used, limits>>

None == "None"
NoTime == -1                \* a timestamp field holding None

(***************************************************************************)
(* Bounds of the exploration                                               *)
(***************************************************************************)
StartTime == 36000          \* the clock at construction (10:00 of day 0)
MaxGoals == 3               \* goals created in one run
MaxUpdates == 3             \* update_progress calls that reach the progress assignment
MaxDependencies == 1        \* add_dependency calls of a mixed run
MaxDecompositions == 2       \* decompose_goal calls that write subtasks
MaxReviews == 2             \* review_goals calls that reach the review loop
MaxIntervalSteps == 1       \* review-interval clock steps
MaxStateUpdates == 2        \* update_component_state calls on registered components
MaxReports == 1             \* report_error calls that carry the required fields
MaxClockSteps == 1          \* clock steps of a registry run
MaxThreads == 2             \* monitoring threads started in one run
MaxLoopPasses == 2          \* passes of the monitoring loop body
MaxSnapshots == 2           \* save_system_state calls of a snapshot run
MaxStateChanges == 4        \* monitor_system_health calls that change system_state
MaxRegistrations == 2       \* register_component calls next to an evaluation
MaxEvaluations == 1         \* monitor_system_health calls next to a mutating caller
MaxManagerGoals == 2        \* goals set in the goal manager
MaxManagerUpdates == 2      \* update_goal_progress calls on known goals
MaxPlans == 2               \* plans created by the planner
MaxExecutions == 3          \* executions of plans that are not waiting for approval
MaxStalledReviews == 6      \* reviews of a stalled run
MaxTasks == 1               \* get_next_task calls of a task run
MaxLogReports == 2          \* report_error calls of a run that starts with a long error log
MaxTicks == 3               \* passes of the monitoring loop of a run that stops it
MaxInactive == 4            \* inactive components of a health evaluation
MaxErrorComponents == 6     \* components in error state of a health evaluation
MaxRecentErrors == 6        \* recent errors of a health evaluation

\* A run follows one of four call budgets: progress reporting on one goal,
\* dependencies among goals that complete, periodic reviews of a full active
\* collection, and a mix of every operation on two goals.  A progress run and
\* a mixed run may restart the process once.
ProgressRun ==
    [set_goal |-> 1, decompose_goal |-> MaxDecompositions, update_progress |-> MaxUpdates,
     add_dependency |-> 0, review_goals |-> 0, tick |-> 0, restart |-> 1]
DependencyRun ==
    [set_goal |-> 3, decompose_goal |-> 0, update_progress |-> 2,
     add_dependency |-> 2, review_goals |-> 0, tick |-> 0, restart |-> 0]
ReviewRun ==
    [set_goal |-> MaxGoals, decompose_goal |-> 0, update_progress |-> 0,
     add_dependency |-> 0, review_goals |-> MaxReviews, tick |-> MaxIntervalSteps, restart |-> 0]
MixedRun ==
    [set_goal |-> 2, decompose_goal |-> 0, update_progress |-> 1,
     add_dependency |-> MaxDependencies, review_goals |-> 1, tick |-> 1, restart |-> 1]
Runs == {ProgressRun, DependencyRun, ReviewRun, MixedRun}

Within(op) == used[op] < limits[op]
Count(op) == [used EXCEPT ![op] = @ + 1]

(***************************************************************************)
(* Program constants                                                       *)
(***************************************************************************)
ReviewIntervalSecs == 3600  \* config.get("review_interval_hours", 1) * 3600
MinActiveGoals == 3         \* config.get("min_active_goals", 3)
DayLen == 86400             \* datetime.now().replace(hour=0, minute=0, second=0, ...)
NumSubtasks == 4            \* every template of decompose_goal has four subtasks

goal_types == {"knowledge_acquisition", "skill_development", "problem_solving",
               "creation", "optimization", "maintenance", "exploration", "assistance"}

(***************************************************************************)
(* Inputs the callers draw from                                            *)
(***************************************************************************)
DescriptionInputs == {"", "d"}
GoalInputs == {[type |-> "optimization", priority |-> 9], [type |-> "no_such_type", priority |-> 0]}
ProgressInputs == {-10, 40, 120}
SubtaskInputs == {<<>>, <<1, 2, 7>>, <<3, 4>>, <<1, 2, 3, 4>>}
NoSuchId == <<0, 0>>

Max(a, b) == IF a >= b THEN a ELSE b
Min(a, b) == IF a <= b THEN a ELSE b
Range(s) == {s[i] : i \in DOMAIN s}

\* a completion that forgets self.goals.remove(goal)
RemoveFirstKeeps(s, x) == s

\* list.remove(x): drops the first element equal to x
RemoveFirst(s, x) ==
    IF \E i \in DOMAIN s : s[i] = x
    THEN LET k == CHOOSE i \in DOMAIN s : s[i] = x /\ \A j \in 1..(i - 1) : s[j] # x
         IN  SubSeq(s, 1, k - 1) \o SubSeq(s, k + 1, Len(s))
    ELSE s

(***************************************************************************)
(* GoalSystem                                                              *)
(***************************************************************************)

\* get_goal: the first active goal with the id, else the first completed one
GetGoalLoc(gs, cs, goal_id) ==
    IF \E i \in DOMAIN gs : gs[i].id = goal_id
    THEN [where |-> "active",
          idx |-> CHOOSE i \in DOMAIN gs : gs[i].id = goal_id /\ \A j \in 1..(i - 1) : gs[j].id # goal_id]
    ELSE IF \E i \in DOMAIN cs : cs[i].id = goal_id
    THEN [where |-> "completed",
          idx |-> CHOOSE i \in DOMAIN cs : cs[i].id = goal_id /\ \A j \in 1..(i - 1) : cs[j].id # goal_id]
    ELSE [where |-> "none", idx |-> 0]

get_goal(gs, cs, goal_id) ==
    LET loc == GetGoalLoc(gs, cs, goal_id)
    IN  IF loc.where = "active" THEN gs[loc.idx]
        ELSE IF loc.where = "completed" THEN cs[loc.idx]
        ELSE None

\* writes the object at a location back (the code mutates the dict in place)
PutGoal(gs, cs, loc, g) ==
    IF loc.where = "active" THEN <<[gs EXCEPT ![loc.idx] = g], cs>>
    ELSE <<gs, [cs EXCEPT ![loc.idx] = g]>>

_save_data(gs, cs) == [exists |-> TRUE, goals |-> gs, completed_goals |-> cs]

\* _load_data: the two lists read from the data file; without a file they stay
\* the empty lists of __init__
_load_data(file) ==
    IF file.exists THEN <<file.goals, file.completed_goals>> ELSE <<<<>>, <<>>>>

KnownIds == Range([i \in DOMAIN goals |-> goals[i].id])
              \cup Range([i \in DOMAIN completed_goals |-> completed_goals[i].id])
IdInputs == KnownIds \cup {NoSuchId}

NewGoal(description, goal_type, priority) ==
    [id |-> <<now, Len(goals)>>,
     description |-> description,
     type |-> IF goal_type \in goal_types THEN goal_type ELSE "knowledge_acquisition",
     priority |-> Max(1, Min(5, priority)),
     status |-> "active",
     progress |-> 0,
     created_at |-> <<now, created_count>>,
     completed_at |-> NoTime,
     subtasks |-> <<>>,
     dependencies |-> <<>>,
     review_count |-> 0]

set_goal(description, goal_type, priority) ==
    /\ call' = "set_goal"
    /\ IF description = ""
       THEN /\ ret' = [status |-> "error", value |-> "Goal description cannot be empty"]
            /\ UNCHANGED <<gvars, used>>
       ELSE LET goal == NewGoal(description, goal_type, priority)
            IN  /\ Within("set_goal")
                /\ used' = Count("set_goal")
                /\ goals' = Append(goals, goal)
                /\ created_count' = created_count + 1
                /\ data_file' = _save_data(goals', completed_goals)
                /\ ret' = [status |-> "created", value |-> goal.id]
                /\ UNCHANGED <<completed_goals, next_review_time>>
    /\ UNCHANGED <<now, svars, limits, ovars>>

DecomposedSubtasks(goal_id) ==
    [k \in 1..NumSubtasks |-> [id |-> <<goal_id, k>>, status |-> "pending", completed |-> FALSE]]

\* a decomposition that never finds the goal decomposed
AlreadyDecomposedNever(goal) == FALSE

\* if goal["subtasks"]
AlreadyDecomposed(goal) == goal.subtasks # <<>>

decompose_goal(goal_id) ==
    LET loc == GetGoalLoc(goals, completed_goals, goal_id)
        goal == get_goal(goals, completed_goals, goal_id)
    IN  /\ call' = "decompose_goal"
        /\ IF loc.where = "none"
           THEN ret' = [status |-> "returned", value |-> <<>>] /\ UNCHANGED <<gvars, used>>
           ELSE IF AlreadyDecomposed(goal)
           THEN ret' = [status |-> "returned", value |-> goal.subtasks] /\ UNCHANGED <<gvars, used>>
           ELSE LET g2 == [goal EXCEPT !.subtasks = DecomposedSubtasks(goal_id)]
                    st == PutGoal(goals, completed_goals, loc, g2)
                IN  /\ Within("decompose_goal")
                    /\ used' = Count("decompose_goal")
                    /\ goals' = st[1]
                    /\ completed_goals' = st[2]
                    /\ data_file' = _save_data(st[1], st[2])
                    /\ ret' = [status |-> "returned", value |-> g2.subtasks]
                    /\ UNCHANGED <<next_review_time, created_count>>
        /\ UNCHANGED <<now, svars, limits, ovars>>

\* the loop of update_progress over completed_subtasks and goal["subtasks"]
MarkSubtasks(subtasks, ids) ==
    [i \in DOMAIN subtasks |->
        IF subtasks[i].id \in ids /\ ~subtasks[i].completed
        THEN [subtasks[i] EXCEPT !.status = "completed", !.completed = TRUE]
        ELSE subtasks[i]]

CompletedCount(subtasks) == Cardinality({i \in DOMAIN subtasks : subtasks[i].completed})

\* the completed fraction taken as the progress, without the factor 100
CalculatedProgressUnscaled(subtasks) == CompletedCount(subtasks) \div Len(subtasks)

\* (completed_count / total_count) * 100
CalculatedProgress(subtasks) == (CompletedCount(subtasks) * 100) \div Len(subtasks)

\* a clamp that forgets the lower limit
ClampProgressAbove(progress) == Min(100, progress)

\* max(0, min(100, progress))
ClampProgress(progress) == Max(0, Min(100, progress))

\* the goal record after the progress assignment, the subtask loop and the max of the two
ProgressedGoal(goal, progress, completed_subtasks) ==
    LET g1 == [goal EXCEPT !.progress = ClampProgress(progress)]
        g2 == [g1 EXCEPT !.subtasks =
                  MarkSubtasks(g1.subtasks, {<<goal.id, completed_subtasks[i]>> : i \in DOMAIN completed_subtasks})]
    IN  IF g2.subtasks # <<>>
        THEN [g2 EXCEPT !.progress = Max(g2.progress, CalculatedProgress(g2.subtasks))]
        ELSE g2

\* the completed check comparing against a status no goal ever has
AlreadyCompletedMisspelt(goal) == goal.status = "complete"

\* if goal["status"] == "completed"
AlreadyCompleted(goal) == goal.status = "completed"

update_progress(goal_id, progress, completed_subtasks) ==
    LET loc == GetGoalLoc(goals, completed_goals, goal_id)
        goal == get_goal(goals, completed_goals, goal_id)
    IN  /\ call' = "update_progress"
        /\ IF loc.where = "none"
           THEN ret' = [status |-> "error", value |-> "Goal not found"] /\ UNCHANGED <<gvars, used>>
           ELSE IF AlreadyCompleted(goal)
           THEN ret' = [status |-> "error", value |-> "Goal already completed"] /\ UNCHANGED <<gvars, used>>
           ELSE LET g3 == ProgressedGoal(goal, progress, completed_subtasks)
                    done == [g3 EXCEPT !.status = "completed", !.completed_at = now]
                IN  /\ Within("update_progress")
                    /\ used' = Count("update_progress")
                    /\ IF g3.progress >= 100
                       THEN /\ goals' = RemoveFirst(PutGoal(goals, completed_goals, loc, done)[1], done)
                            /\ completed_goals' = Append(PutGoal(goals, completed_goals, loc, done)[2], done)
                       ELSE /\ goals' = PutGoal(goals, completed_goals, loc, g3)[1]
                            /\ completed_goals' = PutGoal(goals, completed_goals, loc, g3)[2]
                    /\ data_file' = _save_data(goals', completed_goals')
                    /\ ret' = [status |-> "success", value |-> g3.progress]
                    /\ UNCHANGED <<next_review_time, created_count>>
        /\ UNCHANGED <<now, svars, limits, ovars>>

RECURSIVE _has_circular_dependency(_, _, _, _, _)
RECURSIVE HasCircularOver(_, _, _, _, _, _)

\* the result of the search and the visited set it leaves behind
_has_circular_dependency(gs, cs, goal_id, dependency_id, visited) ==
    IF goal_id \in visited THEN [found |-> FALSE, visited |-> visited]
    ELSE LET v1 == visited \cup {goal_id}
             goal == get_goal(gs, cs, goal_id)
         IN  IF goal_id = dependency_id THEN [found |-> TRUE, visited |-> v1]
             ELSE IF GetGoalLoc(gs, cs, goal_id).where = "none" THEN [found |-> FALSE, visited |-> v1]
             ELSE HasCircularOver(gs, cs, goal.dependencies, 1, dependency_id, v1)

\* the for loop of _has_circular_dependency over goal["dependencies"], from index i
HasCircularOver(gs, cs, deps, i, dependency_id, visited) ==
    IF i > Len(deps) THEN [found |-> FALSE, visited |-> visited]
    ELSE LET r == _has_circular_dependency(gs, cs, deps[i], dependency_id, visited)
         IN  IF r.found THEN r
             ELSE HasCircularOver(gs, cs, deps, i + 1, dependency_id, r.visited)

add_dependency(goal_id, dependency_goal_id) ==
    LET loc == GetGoalLoc(goals, completed_goals, goal_id)
        goal == get_goal(goals, completed_goals, goal_id)
    IN  /\ call' = "add_dependency"
        /\ IF loc.where = "none" \/ GetGoalLoc(goals, completed_goals, dependency_goal_id).where = "none"
           THEN ret' = [status |-> "returned", value |-> FALSE] /\ UNCHANGED <<gvars, used>>
           ELSE IF _has_circular_dependency(goals, completed_goals, dependency_goal_id, goal_id, {}).found
           THEN ret' = [status |-> "returned", value |-> FALSE] /\ UNCHANGED <<gvars, used>>
           ELSE IF dependency_goal_id \in Range(goal.dependencies)
           THEN ret' = [status |-> "returned", value |-> TRUE] /\ UNCHANGED <<gvars, used>>
           ELSE LET g2 == [goal EXCEPT !.dependencies = Append(@, dependency_goal_id)]
                    st == PutGoal(goals, completed_goals, loc, g2)
                IN  /\ Within("add_dependency")
                    /\ used' = Count("add_dependency")
                    /\ goals' = st[1]
                    /\ completed_goals' = st[2]
                    /\ data_file' = _save_data(st[1], st[2])
                    /\ ret' = [status |-> "returned", value |-> TRUE]
                    /\ UNCHANGED <<next_review_time, created_count>>
        /\ UNCHANGED <<now, svars, limits, ovars>>

Midnight(t) == t - (t % DayLen)

\* suggest_new_goals: the list of suggestions
suggest_new_goals(gs, cs) ==
    LET all == gs \o cs
        last_optimization_goal ==
            \E i \in DOMAIN all : all[i].type = "optimization" /\ all[i].created_at[1] >= Midnight(now)
    IN  (IF Len(gs) < MinActiveGoals
         THEN <<[type |-> "knowledge_acquisition", priority |-> 3],
                [type |-> "skill_development", priority |-> 4]>>
         ELSE <<>>)
        \o (IF ~last_optimization_goal THEN <<[type |-> "optimization", priority |-> 3]>> ELSE <<>>)
        \o (IF Len(gs) > 10 \/ Len(cs) > 20 THEN <<[type |-> "maintenance", priority |-> 2]>> ELSE <<>>)

\* a lowering without the floor
StalledPriorityUnbounded(priority) == priority - 1

\* the priority of a stalled goal after a review: one lower, 1 at least
StalledPriority(priority) == IF priority > 1 THEN priority - 1 ELSE priority

RECURSIVE ReviewLoop(_, _, _, _)
\* the loop of review_goals over the copy self.goals[:], from index k; gs is self.goals so far
ReviewLoop(gs, cs, copy, k) ==
    IF k > Len(copy) THEN gs
    ELSE LET i == CHOOSE j \in DOMAIN gs : gs[j].created_at = copy[k].created_at
             g1 == [gs[i] EXCEPT !.review_count = @ + 1]
             is_stalled == g1.review_count > 3 /\ g1.progress < 30
             removed == is_stalled /\ g1.review_count > 5
             g2 == IF is_stalled /\ ~removed
                   THEN [g1 EXCEPT !.priority = StalledPriority(@)] ELSE g1
             gs2 == IF removed
                    THEN SubSeq(gs, 1, i - 1) \o SubSeq(gs, i + 1, Len(gs))
                    ELSE [gs EXCEPT ![i] = g2]
             Keep(dep_id) == LET dep_goal == get_goal(gs2, cs, dep_id)
                             IN  ~(GetGoalLoc(gs2, cs, dep_id).where = "none" \/ dep_goal.status = "completed")
             g3 == [g2 EXCEPT !.dependencies = SelectSeq(@, Keep)]
         IN  ReviewLoop(IF removed THEN gs2 ELSE [gs2 EXCEPT ![i] = g3], cs, copy, k + 1)

review_goals ==
    /\ call' = "review_goals"
    /\ IF now < next_review_time
       THEN ret' = [status |-> "skipped", value |-> "Review time not reached"] /\ UNCHANGED <<gvars, used>>
       ELSE LET gs1 == ReviewLoop(goals, completed_goals, goals, 1)
            IN  /\ Within("review_goals")
                /\ used' = Count("review_goals")
                /\ goals' = gs1
                /\ IF suggest_new_goals(gs1, completed_goals) # <<>>
                   THEN \* random is not imported: random.random() raises NameError
                        /\ ret' = [status |-> "raised", value |-> "NameError"]
                        /\ UNCHANGED <<next_review_time, data_file>>
                   ELSE /\ next_review_time' = now + ReviewIntervalSecs
                        /\ data_file' = _save_data(gs1, completed_goals)
                        /\ ret' = [status |-> "success", value |-> None]
                /\ UNCHANGED <<completed_goals, created_count>>
    /\ UNCHANGED <<now, svars, limits, ovars>>

\* GoalSystem.__init__ without a data file
GoalConstructed ==
    /\ goals = <<>>
    /\ completed_goals = <<>>
    /\ next_review_time = StartTime + ReviewIntervalSecs
    /\ data_file = [exists |-> FALSE, goals |-> <<>>, completed_goals |-> <<>>]
    /\ created_count = 0

\* SelfPreservation.__init__
SPConstructed ==
    /\ system_state = "initializing"
    /\ error_log = <<>>
    /\ component_states = <<>>
    /\ recovery_counters = [total_recoveries |-> 0, failed_recoveries |-> 0, strategy_usage |-> <<>>]
    /\ last_state_save = StartTime
    /\ backup_dir = <<>>
    /\ artifacts_written = <<>>
    /\ shutdown_requested = FALSE
    /\ monitoring_active = FALSE
    /\ monitoring_thread = 0
    /\ threads = <<>>
    /\ ticker = 0
    /\ main_pc = "idle"

\* the process ends and a new GoalSystem object is constructed over the same data file
GRestart ==
    /\ Within("restart")
    /\ used' = Count("restart")
    /\ call' = "restart"
    /\ ret' = [status |-> "none", value |-> None]
    /\ goals' = _load_data(data_file)[1]
    /\ completed_goals' = _load_data(data_file)[2]
    /\ next_review_time' = now + ReviewIntervalSecs
    /\ UNCHANGED <<now, data_file, created_count, svars, limits, ovars>>

GTick(d) ==
    /\ Within("tick")
    /\ used' = Count("tick")
    /\ now' = now + d
    /\ call' = "tick"
    /\ ret' = [status |-> "none", value |-> None]
    /\ UNCHANGED <<gvars, svars, limits, ovars>>

\* a score that adds the deduction for error components instead of subtracting it
HealthScoreAddingErrors(inactive, errors, recent) ==
    Max(0, Min(100, 100 - inactive * 15 + errors * 20 - recent * 5))

\* health_score of monitor_system_health from the three counts
HealthScore(inactive, errors, recent) ==
    Max(0, Min(100, 100 - inactive * 15 - errors * 20 - recent * 5))

\* the counts of a health evaluation with the score computed from them
HealthCase(inactive, errors, recent) ==
    [inactive |-> inactive, errors |-> errors, recent |-> recent,
     score |-> HealthScore(inactive, errors, recent)]

\* a component entry that stands for no entry
NoComponent ==
    [state |-> None, last_heartbeat |-> NoTime, error_count |-> 0,
     recovery_count |-> 0, last_error |-> NoTime]

\* no call of update_component_state is in progress
IdleCaller ==
    [pc |-> "idle", component_name |-> None, state |-> None, previous_state |-> None,
     before |-> NoComponent, after |-> NoComponent]

\* no call of monitor_system_health is in progress
IdleEvaluation == [pc |-> "idle", size |-> 0, seen |-> <<>>, serial |-> <<>>]

\* GoalManager.__init__
ManagerConstructed ==
    /\ gm_goals = <<>>
    /\ gm_priorities = <<>>
    /\ gm_progress = <<>>
    /\ goal_history = <<>>

\* Planner.__init__
PlannerConstructed(steps, oversight) ==
    /\ max_steps = steps
    /\ requires_oversight = oversight
    /\ active_plans = <<>>
    /\ plan_history = <<>>
    /\ approved = {}

\* no statement-by-statement call is in progress, no score has been asked for, and
\* the goal manager and the planner are as constructed with their defaults
OthersIdle ==
    /\ health_case = HealthCase(0, 0, 0)
    /\ caller = IdleCaller
    /\ evaluation = IdleEvaluation
    /\ ManagerConstructed
    /\ PlannerConstructed(10, TRUE)

GInit ==
    /\ OthersIdle
    /\ now = StartTime
    /\ call = "init"
    /\ ret = [status |-> "none", value |-> None]
    /\ GoalConstructed
    /\ limits \in Runs
    /\ used = [op \in DOMAIN limits |-> 0]
    /\ SPConstructed

\* the completed_subtasks passed in a run: a run that decomposes no goal has no
\* goal with subtasks, and there update_progress does the same for every list
RunSubtaskInputs == IF limits["decompose_goal"] = 0 THEN {<<>>} ELSE SubtaskInputs

GNext ==
    \/ \E d \in DescriptionInputs, g \in GoalInputs : set_goal(d, g.type, g.priority)
    \/ \E id \in IdInputs : decompose_goal(id)
    \/ \E id \in IdInputs, p \in ProgressInputs, cs \in RunSubtaskInputs :
           update_progress(id, p, cs)
    \/ \E id \in IdInputs, dep \in IdInputs : add_dependency(id, dep)
    \/ review_goals
    \/ GRestart
    \/ \E d \in {ReviewIntervalSecs} : GTick(d)

SpecGoal == GInit /\ [][GNext]_vars


(***************************************************************************)
(* SelfPreservation                                                        *)
(***************************************************************************)
state_save_interval == 300
BackupsKept == 10
health_check_interval == 30
errors_per_minute == 5
consecutive_failures == 3
ErrorLogCap == 1000

recovery_strategies == {"memory_overflow", "process_hang", "data_corruption",
                        "component_failure", "resource_exhaustion"}

NameInputs == {"safety_filter", "worker"}
StateInputs == {"active", "error", "inactive"}
ClockInputs == {state_save_interval}
ErrorInputs ==
    [complete : BOOLEAN, component : {"worker"}, severity : {"critical", "warning"},
     requires_immediate_recovery : BOOLEAN, recovery_type : {"component_failure"}]
    \cup {[complete |-> TRUE, component |-> "worker", severity |-> "critical",
           requires_immediate_recovery |-> TRUE, recovery_type |-> "no_such_strategy"]}

\* the fields of the object that the handlers below pass along
Self ==
    [system_state |-> system_state, error_log |-> error_log,
     component_states |-> component_states, recovery_counters |-> recovery_counters,
     last_state_save |-> last_state_save, backup_dir |-> backup_dir,
     artifacts_written |-> artifacts_written]

Commit(s) ==
    /\ system_state' = s.system_state
    /\ error_log' = s.error_log
    /\ component_states' = s.component_states
    /\ recovery_counters' = s.recovery_counters
    /\ last_state_save' = s.last_state_save
    /\ backup_dir' = s.backup_dir
    /\ artifacts_written' = s.artifacts_written

\* an error-log entry; entries built without a "timestamp" key carry NoTime
LogEntry(type, timestamp) == [type |-> type, timestamp |-> timestamp]

SetKey(f, k, v) == [x \in DOMAIN f \cup {k} |-> IF x = k THEN v ELSE f[x]]

_update_system_state(s, new_state) ==
    [s EXCEPT !.system_state = new_state,
              !.error_log = IF s.system_state # new_state
                            THEN Append(@, LogEntry("state_change", now)) ELSE @]

_recover_component_failure(s, component) ==
    IF component \in DOMAIN s.component_states
    THEN [s EXCEPT !.component_states[component].state = "active",
                   !.component_states[component].last_heartbeat = now,
                   !.component_states[component].recovery_count = @ + 1]
    ELSE s

\* every strategy reports success; only component_failure touches the registry
_attempt_recovery(s, recovery_type, component) ==
    LET usage == s.recovery_counters.strategy_usage
        s1 == [s EXCEPT !.recovery_counters.total_recoveries = @ + 1,
                        !.recovery_counters.strategy_usage =
                            SetKey(usage, recovery_type,
                                   IF recovery_type \in DOMAIN usage THEN usage[recovery_type] + 1 ELSE 1)]
    IN  IF recovery_type \in recovery_strategies
        THEN IF recovery_type = "component_failure"
             THEN _recover_component_failure(s1, component) ELSE s1
        ELSE [s1 EXCEPT !.recovery_counters.failed_recoveries = @ + 1]

\* recovery_type chosen by _attempt_recovery_from_health_status for a component
HealthRecoveryType(component) ==
    IF component = "safety_filter" THEN "critical_component_failure" ELSE "component_failure"

RECURSIVE _attempt_recovery_from_health_status(_, _)
_attempt_recovery_from_health_status(s, error_components) ==
    IF error_components = {} THEN s
    ELSE LET component == CHOOSE c \in error_components : TRUE
             recovery_type == HealthRecoveryType(component)
             s1 == IF recovery_type \in recovery_strategies
                   THEN _attempt_recovery(s, recovery_type, component) ELSE s
         IN  _attempt_recovery_from_health_status(s1, error_components \ {component})

HeartbeatStatus(c) ==
    LET heartbeat_age == now - c.last_heartbeat
    IN  IF heartbeat_age < 60 THEN "ok" ELSE IF heartbeat_age < 180 THEN "late" ELSE "missing"

\* the health_status that monitor_system_health computes
HealthStatus(s) ==
    LET cs == s.component_states
        inactive_components ==
            {c \in DOMAIN cs : HeartbeatStatus(cs[c]) = "missing" \/ cs[c].state = "inactive"}
        error_components == {c \in DOMAIN cs : cs[c].state = "error"}
        recent_errors ==
            Cardinality({i \in DOMAIN s.error_log :
                            /\ s.error_log[i].timestamp # NoTime
                            /\ now - s.error_log[i].timestamp < 60})
        system_status ==
            IF Cardinality(error_components) > 1 \/ recent_errors > errors_per_minute
            THEN "critical"
            ELSE IF error_components # {} THEN "degraded" ELSE "healthy"
    IN  [system_state |-> s.system_state, status |-> system_status,
         health_score |-> HealthScore(Cardinality(inactive_components),
                                      Cardinality(error_components), recent_errors),
         recent_errors |-> recent_errors,
         inactive_components |-> inactive_components, error_components |-> error_components]

\* the object after monitor_system_health
MonitoredSelf(s) ==
    LET system_status == HealthStatus(s).status
    IN  IF s.system_state # "shutting_down"
        THEN IF system_status = "critical" /\ s.system_state # "critical"
             THEN _update_system_state(s, "critical")
             ELSE IF system_status = "degraded" /\ s.system_state = "stable"
             THEN _update_system_state(s, "degraded")
             ELSE IF system_status = "healthy" /\ s.system_state # "stable"
             THEN _update_system_state(s, "stable")
             ELSE s
        ELSE s

\* state_data of save_system_state
StateData(s) ==
    [timestamp |-> now, system_state |-> s.system_state, component_states |-> s.component_states,
     recovery_counters |-> s.recovery_counters, error_count |-> Len(s.error_log)]

\* system_state_%Y%m%d_%H%M%S.json: one file name per second
BackupFileName == now

RECURSIVE _get_backup_files(_)
\* the file names of the backup directory, most recently modified first
_get_backup_files(dir) ==
    IF DOMAIN dir = {} THEN <<>>
    ELSE LET newest == CHOOSE f \in DOMAIN dir : \A g \in DOMAIN dir : dir[g].mtime <= dir[f].mtime
         IN  <<newest>> \o _get_backup_files([g \in DOMAIN dir \ {newest} |-> dir[g]])

\* a cleanup over a list sorted oldest first: the ten oldest files stay
_cleanup_old_backups_oldest_first(dir) ==
    LET files == _get_backup_files(dir)
    IN  IF Len(files) > BackupsKept
        THEN [f \in Range(SubSeq(files, Len(files) - BackupsKept + 1, Len(files))) |-> dir[f]]
        ELSE dir

\* the directory after _cleanup_old_backups: files[10:] are removed
_cleanup_old_backups(dir) ==
    LET files == _get_backup_files(dir)
    IN  IF Len(files) > BackupsKept
        THEN [f \in Range(SubSeq(files, 1, BackupsKept)) |-> dir[f]]
        ELSE dir

\* a save that takes the time of the attempt as the time of the last save
save_system_state_on_attempt_timed(s, written) ==
    IF written
    THEN [s EXCEPT !.backup_dir =
                       _cleanup_old_backups(
                           SetKey(@, BackupFileName, [mtime |-> now, content |-> StateData(s)])),
                   !.artifacts_written = SetKey(@, BackupFileName, now),
                   !.last_state_save = now]
    ELSE [s EXCEPT !.error_log = Append(@, LogEntry("state_save_failure", NoTime)),
                   !.last_state_save = now]

\* save_system_state; written tells whether the file could be written
save_system_state_on(s, written) ==
    IF written
    THEN [s EXCEPT !.backup_dir =
                       _cleanup_old_backups(
                           SetKey(@, BackupFileName, [mtime |-> now, content |-> StateData(s)])),
                   !.artifacts_written = SetKey(@, BackupFileName, now),
                   !.last_state_save = now]
    ELSE [s EXCEPT !.error_log = Append(@, LogEntry("state_save_failure", NoTime))]

\* restore_system_state once a file name is chosen; readable tells whether the
\* file could be read and parsed
restore_system_state_on(s, filename, readable) ==
    IF readable
    THEN LET state_data == s.backup_dir[filename].content
         IN  [s EXCEPT !.system_state = state_data.system_state,
                       !.component_states = state_data.component_states,
                       !.recovery_counters = state_data.recovery_counters]
    ELSE [s EXCEPT !.error_log = Append(@, LogEntry("state_restore_failure", NoTime))]


Idle == main_pc = "idle"
KeepGoals == UNCHANGED <<gvars, limits, ovars>>
KeepThreads == UNCHANGED <<monitoring_active, monitoring_thread, threads, ticker, main_pc>>

NewComponent(initial_state) ==
    [state |-> initial_state, last_heartbeat |-> now, error_count |-> 0,
     recovery_count |-> 0, last_error |-> NoTime]

register_component(component_name, initial_state) ==
    /\ Idle /\ Within("register_component")
    /\ used' = Count("register_component")
    /\ call' = "register_component"
    /\ ret' = [status |-> "returned", value |-> None]
    /\ component_states' = SetKey(component_states, component_name, NewComponent(initial_state))
    /\ UNCHANGED <<now, system_state, error_log, recovery_counters, last_state_save, backup_dir, artifacts_written,
                   shutdown_requested>>
    /\ KeepThreads /\ KeepGoals

\* update_component_state once the name is known to be registered
UpdateRegistered(s, component_name, state) ==
    LET previous_state == s.component_states[component_name].state
        s1 == [s EXCEPT !.component_states[component_name].state = state,
                        !.component_states[component_name].last_heartbeat = now]
    IN  IF previous_state # state /\ state = "error" /\ previous_state # "error"
        THEN LET s2 == [s1 EXCEPT !.component_states[component_name].error_count = @ + 1,
                                  !.component_states[component_name].last_error = now,
                                  !.error_log = Append(@, LogEntry("component_error", now))]
             IN  IF component_name \in {"safety_filter", "main_assistant"}
                 THEN _update_system_state(s2, "degraded") ELSE s2
        ELSE s1

\* update_component_state that registers a name it does not know
update_component_state_registering(component_name, state) ==
    /\ Idle
    /\ call' = "update_component_state"
    /\ IF component_name \notin DOMAIN component_states
       THEN /\ ret' = [status |-> "returned", value |-> TRUE]
            /\ component_states' = SetKey(component_states, component_name, NewComponent(state))
            /\ UNCHANGED <<system_state, error_log, recovery_counters, last_state_save, backup_dir, artifacts_written, used>>
       ELSE /\ Within("update_component_state")
            /\ used' = Count("update_component_state")
            /\ Commit(UpdateRegistered(Self, component_name, state))
            /\ ret' = [status |-> "returned", value |-> TRUE]
    /\ UNCHANGED <<now, shutdown_requested>>
    /\ KeepThreads /\ KeepGoals

update_component_state(component_name, state) ==
    /\ Idle
    /\ call' = "update_component_state"
    /\ IF component_name \notin DOMAIN component_states
       THEN /\ ret' = [status |-> "returned", value |-> FALSE]
            /\ UNCHANGED <<system_state, error_log, component_states, recovery_counters,
                           last_state_save, backup_dir, artifacts_written, used>>
       ELSE /\ Within("update_component_state")
            /\ used' = Count("update_component_state")
            /\ Commit(UpdateRegistered(Self, component_name, state))
            /\ ret' = [status |-> "returned", value |-> TRUE]
    /\ UNCHANGED <<now, shutdown_requested>>
    /\ KeepThreads /\ KeepGoals

component_heartbeat(component_name) ==
    /\ Idle
    /\ call' = "component_heartbeat"
    /\ IF component_name \notin DOMAIN component_states
       THEN /\ ret' = [status |-> "returned", value |-> FALSE]
            /\ UNCHANGED component_states
       ELSE /\ component_states' = [component_states EXCEPT ![component_name].last_heartbeat = now]
            /\ ret' = [status |-> "returned", value |-> TRUE]
    /\ UNCHANGED <<now, system_state, error_log, recovery_counters, last_state_save, backup_dir, artifacts_written,
                   shutdown_requested, used>>
    /\ KeepThreads /\ KeepGoals

\* the object after report_error has logged error_data and acted on its severity
ReportedSelf(s, error_data) ==
    LET s1 == [s EXCEPT !.error_log = Append(@, LogEntry(error_data.severity, now))]
    IN  IF error_data.severity = "critical"
        THEN LET s2 == _update_system_state(s1, "degraded")
             IN  IF error_data.requires_immediate_recovery
                    /\ error_data.recovery_type \in recovery_strategies
                 THEN _attempt_recovery(s2, error_data.recovery_type, error_data.component)
                 ELSE s2
        ELSE IF error_data.severity = "warning"
        THEN IF /\ error_data.component \in DOMAIN s1.component_states
                /\ s1.component_states[error_data.component].error_count >= consecutive_failures
             THEN _update_system_state(s1, "degraded") ELSE s1
        ELSE s1

report_error(error_data) ==
    /\ Idle
    /\ call' = "report_error"
    /\ IF ~error_data.complete
       THEN /\ ret' = [status |-> "returned", value |-> ""]
            /\ UNCHANGED <<system_state, error_log, component_states, recovery_counters,
                           last_state_save, backup_dir, artifacts_written, used>>
       ELSE /\ Within("report_error")
            /\ used' = Count("report_error")
            /\ Commit(ReportedSelf(Self, error_data))
            /\ ret' = [status |-> "returned", value |-> "error_id"]
    /\ UNCHANGED <<now, shutdown_requested>>
    /\ KeepThreads /\ KeepGoals

save_system_state(written) ==
    /\ Idle /\ Within("save_system_state")
    /\ written \/ limits["write_failure"] > 0
    /\ used' = Count("save_system_state")
    /\ call' = "save_system_state"
    /\ Commit(save_system_state_on(Self, written))
    /\ ret' = [status |-> IF written THEN "success" ELSE "error", value |-> None]
    /\ UNCHANGED <<now, shutdown_requested>>
    /\ KeepThreads /\ KeepGoals

\* restore_system_state() with no file name: the latest backup
restore_system_state(readable) ==
    /\ Idle
    /\ call' = "restore_system_state"
    /\ IF DOMAIN backup_dir = {}
       THEN /\ ret' = [status |-> "error", value |-> "No backup files found"]
            /\ UNCHANGED <<system_state, error_log, component_states, recovery_counters,
                           last_state_save, backup_dir, artifacts_written, used>>
       ELSE /\ Within("restore_system_state")
            /\ used' = Count("restore_system_state")
            /\ Commit(restore_system_state_on(Self, _get_backup_files(backup_dir)[1], readable))
            /\ ret' = [status |-> IF readable THEN "success" ELSE "error", value |-> None]
    /\ UNCHANGED <<now, shutdown_requested>>
    /\ KeepThreads /\ KeepGoals

\* the process ends and a new SelfPreservation object is constructed over the
\* same backup directory
SPRestart ==
    /\ Idle /\ Within("restart")
    /\ \A t \in DOMAIN threads : threads[t] = "done"
    /\ used' = Count("restart")
    /\ call' = "restart"
    /\ ret' = [status |-> "none", value |-> None]
    /\ system_state' = "initializing"
    /\ error_log' = <<>>
    /\ component_states' = <<>>
    /\ recovery_counters' = [total_recoveries |-> 0, failed_recoveries |-> 0, strategy_usage |-> <<>>]
    /\ last_state_save' = now
    /\ shutdown_requested' = FALSE
    /\ monitoring_active' = FALSE
    /\ monitoring_thread' = 0
    /\ threads' = <<>>
    /\ ticker' = 0
    /\ UNCHANGED <<now, backup_dir, artifacts_written, main_pc>>
    /\ KeepGoals

monitor_system_health ==
    /\ Idle
    /\ call' = "monitor_system_health"
    /\ IF MonitoredSelf(Self) = Self
       THEN UNCHANGED used
       ELSE Within("monitor_system_health") /\ used' = Count("monitor_system_health")
    /\ Commit(MonitoredSelf(Self))
    /\ ret' = [status |-> HealthStatus(Self).status, value |-> HealthStatus(Self).health_score]
    /\ UNCHANGED <<now, shutdown_requested>>
    /\ KeepThreads /\ KeepGoals

ThreadAlive(t) == t # 0 /\ threads[t] # "done"

start_monitoring ==
    /\ Idle
    /\ call' = "start_monitoring"
    /\ IF monitoring_active
       THEN /\ ret' = [status |-> "returned", value |-> FALSE]
            /\ UNCHANGED <<system_state, monitoring_active, monitoring_thread, threads, used>>
       ELSE /\ Within("start_monitoring")
            /\ used' = Count("start_monitoring")
            /\ monitoring_active' = TRUE
            /\ system_state' = "stable"
            /\ threads' = Append(threads, "loop_test")
            /\ monitoring_thread' = Len(threads) + 1
            /\ ret' = [status |-> "returned", value |-> TRUE]
    /\ UNCHANGED <<now, error_log, component_states, recovery_counters, last_state_save, backup_dir, artifacts_written,
                   shutdown_requested, ticker, main_pc>>
    /\ KeepGoals

\* stop_monitoring up to the join; the join is left in JoinReturns
stop_monitoring ==
    /\ Idle
    /\ call' = "stop_monitoring"
    /\ IF ~monitoring_active
       THEN /\ ret' = [status |-> "returned", value |-> FALSE]
            /\ UNCHANGED <<monitoring_active, main_pc>>
       ELSE /\ monitoring_active' = FALSE
            /\ IF ThreadAlive(monitoring_thread)
               THEN main_pc' = "join_stop" /\ ret' = [status |-> "joining", value |-> None]
               ELSE main_pc' = "idle" /\ ret' = [status |-> "returned", value |-> TRUE]
    /\ UNCHANGED <<now, system_state, error_log, component_states, recovery_counters,
                   last_state_save, backup_dir, artifacts_written, shutdown_requested, monitoring_thread, threads, ticker, used>>
    /\ KeepGoals

\* safe_shutdown up to the join of stop_monitoring, or to its end when nothing is joined
safe_shutdown(written) ==
    LET s1 == save_system_state_on(Self, written)
        joins == monitoring_active /\ ThreadAlive(monitoring_thread)
    IN  /\ Idle /\ Within("safe_shutdown")
        /\ used' = Count("safe_shutdown")
        /\ call' = "safe_shutdown"
        /\ shutdown_requested' = TRUE
        /\ monitoring_active' = FALSE
        /\ IF joins
           THEN /\ Commit(s1)
                /\ main_pc' = "join_shutdown"
                /\ ret' = [status |-> "joining", value |-> None]
           ELSE /\ Commit(_update_system_state(s1, "shutting_down"))
                /\ main_pc' = "idle"
                /\ ret' = [status |-> "success", value |-> written]
        /\ UNCHANGED <<now, monitoring_thread, threads, ticker>>
        /\ KeepGoals

\* monitoring_thread.join(timeout=5.0) returns: the thread has ended, or it is
\* inside its sleep and the timeout runs out first
JoinReturns ==
    /\ main_pc \in {"join_stop", "join_shutdown"}
    /\ threads[monitoring_thread] \in {"done", "sleeping"}
    /\ main_pc' = "idle"
    /\ IF main_pc = "join_stop"
       THEN /\ call' = "stop_monitoring"
            /\ ret' = [status |-> "returned", value |-> TRUE]
            /\ UNCHANGED <<system_state, error_log>>
       ELSE /\ call' = "safe_shutdown"
            /\ ret' = [status |-> "success", value |-> None]
            /\ system_state' = _update_system_state(Self, "shutting_down").system_state
            /\ error_log' = _update_system_state(Self, "shutting_down").error_log
    /\ UNCHANGED <<now, component_states, recovery_counters, last_state_save, backup_dir, artifacts_written,
                   shutdown_requested, monitoring_active, monitoring_thread, threads, ticker, used>>
    /\ KeepGoals

\* the object after one pass of the try block of _monitoring_loop
LoopBody(s, written) ==
    LET health_status == HealthStatus(s)
        s1 == MonitoredSelf(s)
        s2 == IF health_status.status = "critical"
              THEN _attempt_recovery_from_health_status(s1, health_status.error_components)
              ELSE s1
        s3 == IF now - s2.last_state_save >= state_save_interval
              THEN save_system_state_on(s2, written) ELSE s2
    IN  IF Len(s3.error_log) > ErrorLogCap
        THEN [s3 EXCEPT !.error_log = SubSeq(@, Len(@) - ErrorLogCap + 1, Len(@))]
        ELSE s3

\* thread t evaluates `while self.monitoring_active` and runs the body up to the sleep
LoopPass(t, written) ==
    /\ threads[t] = "loop_test"
    /\ monitoring_active
    /\ Within("loop_pass")
    /\ used' = Count("loop_pass")
    /\ call' = "loop_pass"
    /\ ret' = [status |-> HealthStatus(Self).status, value |-> HealthStatus(Self).health_score]
    /\ Commit(LoopBody(Self, written))
    /\ threads' = [threads EXCEPT ![t] = "sleeping"]
    /\ ticker' = t
    /\ UNCHANGED <<now, shutdown_requested, monitoring_active, monitoring_thread, main_pc>>
    /\ KeepGoals

\* thread t finds monitoring_active false and leaves the loop
LoopExit(t) ==
    /\ threads[t] = "loop_test"
    /\ ~monitoring_active
    /\ threads' = [threads EXCEPT ![t] = "done"]
    /\ UNCHANGED <<now, call, ret, system_state, error_log, component_states, recovery_counters,
                   last_state_save, backup_dir, artifacts_written, shutdown_requested, monitoring_active, monitoring_thread,
                   ticker, main_pc, used>>
    /\ KeepGoals

\* time.sleep(self.health_check_interval) of thread t ends
LoopWake(t) ==
    /\ threads[t] = "sleeping"
    /\ threads' = [threads EXCEPT ![t] = "loop_test"]
    /\ UNCHANGED <<now, call, ret, system_state, error_log, component_states, recovery_counters,
                   last_state_save, backup_dir, artifacts_written, shutdown_requested, monitoring_active, monitoring_thread,
                   ticker, main_pc, used>>
    /\ KeepGoals

SPTick(d) ==
    /\ Within("tick")
    /\ used' = Count("tick")
    /\ now' = now + d
    /\ call' = "tick"
    /\ ret' = [status |-> "none", value |-> None]
    /\ UNCHANGED <<svars, gvars, limits, ovars>>

\* A run follows one of five call budgets: registry updates and health
\* evaluation, recovery by the monitoring loop, starting and stopping the
\* monitoring threads, shutdown, and a snapshot restored after a restart.
\* write_failure tells whether save_system_state calls of the run may fail
\* to write.  Snapshots filling the backup directory are a run of their own.
RegistryRun ==
    [register_component |-> 2, update_component_state |-> MaxStateUpdates, monitor_system_health |-> MaxStateChanges,
     report_error |-> 0,
     save_system_state |-> 0, write_failure |-> 0, restore_system_state |-> 0, restart |-> 0,
     safe_shutdown |-> 0, start_monitoring |-> 0, loop_pass |-> 0, tick |-> MaxClockSteps]
RecoveryRun ==
    [register_component |-> 2, update_component_state |-> 2, monitor_system_health |-> MaxStateChanges,
     report_error |-> 0,
     save_system_state |-> 0, write_failure |-> 0, restore_system_state |-> 0, restart |-> 0,
     safe_shutdown |-> 0, start_monitoring |-> 1, loop_pass |-> 1, tick |-> 0]
MonitoringRun ==
    [register_component |-> 0, update_component_state |-> 0, monitor_system_health |-> 2,
     report_error |-> 0,
     save_system_state |-> 0, write_failure |-> 1, restore_system_state |-> 0, restart |-> 0,
     safe_shutdown |-> 0, start_monitoring |-> MaxThreads, loop_pass |-> MaxLoopPasses, tick |-> 1]
ShutdownRun ==
    [register_component |-> 0, update_component_state |-> 0, monitor_system_health |-> 1,
     report_error |-> MaxReports,
     save_system_state |-> 0, write_failure |-> 0, restore_system_state |-> 0, restart |-> 0,
     safe_shutdown |-> 1, start_monitoring |-> 1, loop_pass |-> 1, tick |-> 0]
SnapshotRun ==
    [register_component |-> 1, update_component_state |-> 1, monitor_system_health |-> 0,
     report_error |-> 0,
     save_system_state |-> MaxSnapshots, write_failure |-> 1, restore_system_state |-> 1, restart |-> 1,
     safe_shutdown |-> 0, start_monitoring |-> 0, loop_pass |-> 0, tick |-> 1]
\* one artifact more than _cleanup_old_backups keeps
MaxSaves == BackupsKept + 1

BackupRun ==
    [register_component |-> 0, update_component_state |-> 0, monitor_system_health |-> 0,
     report_error |-> 0,
     save_system_state |-> MaxSaves, write_failure |-> 0, restore_system_state |-> 1, restart |-> 0,
     safe_shutdown |-> 0, start_monitoring |-> 0, loop_pass |-> 0, tick |-> MaxSaves - 1]
SPRuns == {RegistryRun, RecoveryRun, MonitoringRun, ShutdownRun, SnapshotRun}

SPInit ==
    /\ OthersIdle
    /\ now = StartTime
    /\ call = "init"
    /\ ret = [status |-> "none", value |-> None]
    /\ limits \in SPRuns
    /\ used = [op \in DOMAIN limits |-> 0]
    /\ SPConstructed
    /\ GoalConstructed

SPNext ==
    \/ \E n \in NameInputs : register_component(n, "active")
    \/ \E n \in NameInputs, st \in StateInputs : update_component_state(n, st)
    \/ \E n \in NameInputs : component_heartbeat(n)
    \/ \E e \in ErrorInputs : report_error(e)
    \/ \E written \in BOOLEAN : save_system_state(written)
    \/ \E readable \in BOOLEAN : restore_system_state(readable)
    \/ SPRestart
    \/ monitor_system_health
    \/ start_monitoring
    \/ stop_monitoring
    \/ \E written \in BOOLEAN : safe_shutdown(written)
    \/ JoinReturns
    \/ \E t \in DOMAIN threads, written \in BOOLEAN : LoopPass(t, written)
    \/ \E t \in DOMAIN threads : LoopExit(t)
    \/ \E t \in DOMAIN threads : LoopWake(t)
    \/ \E d \in ClockInputs : SPTick(d)

SpecSP == SPInit /\ [][SPNext]_vars

(***************************************************************************)
(* Error reports against a registry whose health has been evaluated        *)
(***************************************************************************)
HealthRun ==
    [register_component |-> 2, update_component_state |-> 3, monitor_system_health |-> 2,
     report_error |-> 1,
     save_system_state |-> 0, write_failure |-> 0, restore_system_state |-> 0, restart |-> 0,
     safe_shutdown |-> 0, start_monitoring |-> 0, loop_pass |-> 0, tick |-> 0]

HealthInit ==
    /\ OthersIdle
    /\ now = StartTime
    /\ call = "init"
    /\ ret = [status |-> "none", value |-> None]
    /\ limits = HealthRun
    /\ used = [op \in DOMAIN limits |-> 0]
    /\ SPConstructed
    /\ GoalConstructed

HealthNext ==
    \/ \E n \in NameInputs : register_component(n, "active")
    \/ \E n \in NameInputs, st \in StateInputs : update_component_state(n, st)
    \/ \E e \in ErrorInputs : report_error(e)
    \/ monitor_system_health

SpecHealth == HealthInit /\ [][HealthNext]_vars

(***************************************************************************)
(* The monitoring loop until it ends: passes that raise, stop and restart  *)
(***************************************************************************)
LoopRun ==
    [register_component |-> 0, update_component_state |-> 0, monitor_system_health |-> 0,
     report_error |-> 0,
     save_system_state |-> 0, write_failure |-> 0, restore_system_state |-> 0, restart |-> 0,
     safe_shutdown |-> 0, start_monitoring |-> 2, loop_pass |-> MaxTicks, tick |-> 0]

\* a pass whose exception is not caught: the thread ends
LoopPassCrashes(t) ==
    /\ threads[t] = "loop_test"
    /\ monitoring_active
    /\ Within("loop_pass")
    /\ used' = Count("loop_pass")
    /\ call' = "loop_pass"
    /\ ret' = [status |-> "raised", value |-> 0]
    /\ threads' = [threads EXCEPT ![t] = "done"]
    /\ ticker' = t
    /\ UNCHANGED <<now, system_state, error_log, component_states, recovery_counters, last_state_save,
                   backup_dir, artifacts_written, shutdown_requested, monitoring_active,
                   monitoring_thread, main_pc>>
    /\ KeepGoals

\* thread t finds monitoring_active true and an exception is raised while
\* monitor_system_health reads the registry: the except block logs it and
\* sleeps before the loop test is made again
LoopPassRaises(t) ==
    /\ threads[t] = "loop_test"
    /\ monitoring_active
    /\ Within("loop_pass")
    /\ used' = Count("loop_pass")
    /\ call' = "loop_pass"
    /\ ret' = [status |-> "raised", value |-> 0]
    /\ error_log' = Append(error_log, LogEntry("monitoring_error", NoTime))
    /\ threads' = [threads EXCEPT ![t] = "sleeping"]
    /\ ticker' = t
    /\ UNCHANGED <<now, system_state, component_states, recovery_counters, last_state_save,
                   backup_dir, artifacts_written, shutdown_requested, monitoring_active,
                   monitoring_thread, main_pc>>
    /\ KeepGoals

\* one evaluation of the loop test by thread t with the body that follows it
Tick(t) ==
    /\ t \in DOMAIN threads
    /\ LoopPass(t, TRUE) \/ LoopPassRaises(t)

LoopInit ==
    /\ OthersIdle
    /\ now = StartTime
    /\ call = "init"
    /\ ret = [status |-> "none", value |-> None]
    /\ limits = LoopRun
    /\ used = [op \in DOMAIN limits |-> 0]
    /\ SPConstructed
    /\ GoalConstructed

LoopNext ==
    \/ start_monitoring
    \/ stop_monitoring
    \/ JoinReturns
    \/ \E t \in DOMAIN threads : LoopPass(t, TRUE)
    \/ \E t \in DOMAIN threads : LoopPassRaises(t)
    \/ \E t \in DOMAIN threads : LoopExit(t)
    \/ \E t \in DOMAIN threads : LoopWake(t)

\* a runnable thread runs and a sleep ends: each thread takes its next step
LoopFairness ==
    \A t \in 1..LoopRun["start_monitoring"] :
        /\ WF_vars(Tick(t))
        /\ WF_vars(t \in DOMAIN threads /\ LoopExit(t))
        /\ WF_vars(t \in DOMAIN threads /\ LoopWake(t))

SpecLoop == LoopInit /\ [][LoopNext]_vars /\ LoopFairness

(***************************************************************************)
(* An error log that has grown near its cap                                *)
(***************************************************************************)
LogRun ==
    [register_component |-> 1, update_component_state |-> 1, monitor_system_health |-> 0,
     report_error |-> MaxLogReports,
     save_system_state |-> 1, write_failure |-> 1, restore_system_state |-> 0, restart |-> 0,
     safe_shutdown |-> 0, start_monitoring |-> 1, loop_pass |-> 1, tick |-> 0]

\* the object after n report_error calls with severity warning about a
\* component that is not registered, all within the second StartTime
LogInit ==
    /\ OthersIdle
    /\ now = StartTime
    /\ call = "report_error"
    /\ ret = [status |-> "returned", value |-> "error_id"]
    /\ limits = LogRun
    /\ used = [op \in DOMAIN limits |-> 0]
    /\ system_state = "initializing"
    /\ error_log = [i \in 1..(ErrorLogCap - 1) |-> LogEntry("warning", StartTime)]
    /\ component_states = <<>>
    /\ recovery_counters = [total_recoveries |-> 0, failed_recoveries |-> 0, strategy_usage |-> <<>>]
    /\ last_state_save = StartTime
    /\ backup_dir = <<>>
    /\ artifacts_written = <<>>
    /\ shutdown_requested = FALSE
    /\ monitoring_active = FALSE
    /\ monitoring_thread = 0
    /\ threads = <<>>
    /\ ticker = 0
    /\ main_pc = "idle"
    /\ GoalConstructed

LogNext ==
    \/ register_component("worker", "active")
    \/ update_component_state("worker", "error")
    \/ \E e \in {x \in ErrorInputs : x.complete /\ ~x.requires_immediate_recovery} : report_error(e)
    \/ save_system_state(FALSE)
    \/ start_monitoring
    \/ \E t \in DOMAIN threads : LoopPass(t, TRUE)
    \/ \E t \in DOMAIN threads : LoopWake(t)

SpecLog == LogInit /\ [][LogNext]_vars

(***************************************************************************)
(* Snapshots filling the backup directory: one is written in each of more  *)
(* seconds than _cleanup_old_backups keeps files                           *)
(***************************************************************************)
BackupInit ==
    /\ OthersIdle
    /\ now = StartTime
    /\ call = "init"
    /\ ret = [status |-> "none", value |-> None]
    /\ limits = BackupRun
    /\ used = [op \in DOMAIN limits |-> 0]
    /\ SPConstructed
    /\ GoalConstructed

BackupNext ==
    \/ \E written \in BOOLEAN : save_system_state(written)
    \/ \E readable \in BOOLEAN : restore_system_state(readable)
    \/ \E d \in ClockInputs : SPTick(d)

SpecBackup == BackupInit /\ [][BackupNext]_vars

(***************************************************************************)
(* The health score as a function of the three counts: evaluations that    *)
(* differ in one more component in error state, all else equal             *)
(***************************************************************************)
ScoreInit ==
    /\ \E inactive \in 0..MaxInactive, recent \in 0..MaxRecentErrors :
           health_case = HealthCase(inactive, 0, recent)
    /\ caller = IdleCaller
    /\ evaluation = IdleEvaluation
    /\ ManagerConstructed
    /\ PlannerConstructed(10, TRUE)
    /\ now = StartTime
    /\ call = "init"
    /\ ret = [status |-> "none", value |-> None]
    /\ limits = [error_component |-> MaxErrorComponents]
    /\ used = [error_component |-> 0]
    /\ SPConstructed
    /\ GoalConstructed

\* monitor_system_health evaluated with one more component in error state
ErrorComponentAdded ==
    /\ Within("error_component")
    /\ used' = Count("error_component")
    /\ health_case' = HealthCase(health_case.inactive, health_case.errors + 1, health_case.recent)
    /\ call' = "monitor_system_health"
    /\ ret' = [status |-> "score", value |-> health_case'.score]
    /\ UNCHANGED <<now, gvars, svars, rvars, mvars, plvars, limits>>

ScoreNext == ErrorComponentAdded

SpecScore == ScoreInit /\ [][ScoreNext]_vars

(***************************************************************************)
(* A caller's registry mutation and the monitoring thread's evaluation,    *)
(* each running one statement at a time: the object holds no lock, so the  *)
(* interpreter may switch threads between any two statements               *)
(***************************************************************************)
RaceRun == [register_component |-> MaxRegistrations, update_component_state |-> MaxStateUpdates,
            monitor_system_health |-> MaxEvaluations]

CallerIdle == caller.pc = "idle"

RaceKeep ==
    UNCHANGED <<now, recovery_counters, last_state_save, backup_dir, artifacts_written,
                shutdown_requested, gvars, health_case, mvars, plvars, limits>>

\* register_component called by the caller: one store into the registry
race_register_component(component_name, initial_state) ==
    /\ CallerIdle
    /\ register_component(component_name, initial_state)

\* component_heartbeat called by the caller
race_component_heartbeat(component_name) ==
    /\ CallerIdle
    /\ component_heartbeat(component_name)

\* update_component_state up to the store of the new state
update_state_stored(component_name, state) ==
    /\ CallerIdle /\ Idle
    /\ call' = "update_component_state"
    /\ IF component_name \notin DOMAIN component_states
       THEN /\ ret' = [status |-> "returned", value |-> FALSE]
            /\ UNCHANGED <<component_states, caller, used>>
       ELSE /\ Within("update_component_state")
            /\ used' = Count("update_component_state")
            /\ ret' = [status |-> "running", value |-> None]
            /\ caller' = [pc |-> "state_stored", component_name |-> component_name,
                          state |-> state,
                          previous_state |-> component_states[component_name].state,
                          before |-> component_states[component_name],
                          after |-> UpdateRegistered(Self, component_name, state)
                                        .component_states[component_name]]
            /\ component_states' = [component_states EXCEPT ![component_name].state = state]
    /\ UNCHANGED <<system_state, error_log, evaluation>>
    /\ RaceKeep /\ KeepThreads

\* the store of last_heartbeat, and the return when the state did not turn into error
update_heartbeat_stored ==
    /\ caller.pc = "state_stored"
    /\ call' = "update_component_state"
    /\ component_states' = [component_states EXCEPT ![caller.component_name].last_heartbeat = now]
    /\ IF caller.previous_state # caller.state /\ caller.state = "error"
       THEN /\ caller' = [caller EXCEPT !.pc = "heartbeat_stored"]
            /\ ret' = [status |-> "running", value |-> None]
       ELSE /\ caller' = IdleCaller
            /\ ret' = [status |-> "returned", value |-> TRUE]
    /\ UNCHANGED <<system_state, error_log, evaluation, used>>
    /\ RaceKeep /\ KeepThreads

\* error_count += 1
update_error_count_stored ==
    /\ caller.pc = "heartbeat_stored"
    /\ call' = "update_component_state"
    /\ component_states' = [component_states EXCEPT ![caller.component_name].error_count = @ + 1]
    /\ caller' = [caller EXCEPT !.pc = "error_count_stored"]
    /\ ret' = [status |-> "running", value |-> None]
    /\ UNCHANGED <<system_state, error_log, evaluation, used>>
    /\ RaceKeep /\ KeepThreads

\* the store of last_error
update_last_error_stored ==
    /\ caller.pc = "error_count_stored"
    /\ call' = "update_component_state"
    /\ component_states' = [component_states EXCEPT ![caller.component_name].last_error = now]
    /\ caller' = [caller EXCEPT !.pc = "last_error_stored"]
    /\ ret' = [status |-> "running", value |-> None]
    /\ UNCHANGED <<system_state, error_log, evaluation, used>>
    /\ RaceKeep /\ KeepThreads

\* the error-log entry, the system state of a critical component, and the return
update_returns ==
    /\ caller.pc = "last_error_stored"
    /\ call' = "update_component_state"
    /\ LET s1 == [Self EXCEPT !.error_log = Append(@, LogEntry("component_error", now))]
           s2 == IF caller.component_name \in {"safety_filter", "main_assistant"}
                 THEN _update_system_state(s1, "degraded") ELSE s1
       IN  /\ system_state' = s2.system_state
           /\ error_log' = s2.error_log
    /\ caller' = IdleCaller
    /\ ret' = [status |-> "returned", value |-> TRUE]
    /\ UNCHANGED <<component_states, evaluation, used>>
    /\ RaceKeep /\ KeepThreads

\* the entries of a component that a read serialized with the caller's mutation returns
SerialEntries(component) ==
    IF ~CallerIdle /\ caller.component_name = component
    THEN {caller.before, caller.after}
    ELSE {component_states[component]}

\* monitor_system_health up to the creation of the iterator over the registry
monitor_iteration_started ==
    /\ evaluation.pc = "idle"
    /\ Within("monitor_system_health")
    /\ used' = Count("monitor_system_health")
    /\ call' = "monitor_system_health"
    /\ ret' = [status |-> "running", value |-> None]
    /\ evaluation' = [pc |-> "iterating", size |-> Cardinality(DOMAIN component_states),
                      seen |-> <<>>, serial |-> <<>>]
    /\ UNCHANGED <<system_state, error_log, component_states, caller>>
    /\ RaceKeep /\ KeepThreads

\* one pass of the loop over the registry: the next item is read
monitor_item_read(component) ==
    /\ evaluation.pc = "iterating"
    /\ Cardinality(DOMAIN component_states) = evaluation.size
    /\ component \in DOMAIN component_states \ DOMAIN evaluation.seen
    /\ call' = "monitor_system_health"
    /\ ret' = [status |-> "running", value |-> None]
    /\ evaluation' = [evaluation EXCEPT
                          !.seen = SetKey(@, component, component_states[component]),
                          !.serial = SetKey(@, component, SerialEntries(component))]
    /\ UNCHANGED <<system_state, error_log, component_states, caller, used>>
    /\ RaceKeep /\ KeepThreads

\* the iterator finds the registry of another size than when it was created
monitor_raises ==
    /\ evaluation.pc = "iterating"
    /\ Cardinality(DOMAIN component_states) # evaluation.size
    /\ call' = "monitor_system_health"
    /\ ret' = [status |-> "error", value |-> "RuntimeError"]
    /\ evaluation' = [evaluation EXCEPT !.pc = "failed"]
    /\ UNCHANGED <<system_state, error_log, component_states, caller, used>>
    /\ RaceKeep /\ KeepThreads

\* the handler of _monitoring_loop logs the exception
monitor_failure_logged ==
    /\ evaluation.pc = "failed"
    /\ call' = "_monitoring_loop"
    /\ ret' = [status |-> "returned", value |-> None]
    /\ error_log' = Append(error_log, LogEntry("monitoring_error", NoTime))
    /\ evaluation' = IdleEvaluation
    /\ UNCHANGED <<system_state, component_states, caller, used>>
    /\ RaceKeep /\ KeepThreads

\* the iterator is exhausted: the rest of monitor_system_health, from the items read
monitor_returns ==
    /\ evaluation.pc = "iterating"
    /\ Cardinality(DOMAIN component_states) = evaluation.size
    /\ DOMAIN evaluation.seen = DOMAIN component_states
    /\ call' = "monitor_system_health"
    /\ LET read == [Self EXCEPT !.component_states = evaluation.seen]
       IN  /\ system_state' = MonitoredSelf(read).system_state
           /\ error_log' = MonitoredSelf(read).error_log
           /\ ret' = [status |-> HealthStatus(read).status,
                      value |-> HealthStatus(read).health_score]
    /\ evaluation' = IdleEvaluation
    /\ UNCHANGED <<component_states, caller, used>>
    /\ RaceKeep /\ KeepThreads

RaceInit ==
    /\ OthersIdle
    /\ now = StartTime
    /\ call = "init"
    /\ ret = [status |-> "none", value |-> None]
    /\ limits = RaceRun
    /\ used = [op \in DOMAIN limits |-> 0]
    /\ SPConstructed
    /\ GoalConstructed

RaceNext ==
    \/ \E n \in NameInputs, st \in StateInputs : race_register_component(n, st)
    \/ \E n \in NameInputs : race_component_heartbeat(n)
    \/ \E n \in NameInputs, st \in StateInputs : update_state_stored(n, st)
    \/ update_heartbeat_stored
    \/ update_error_count_stored
    \/ update_last_error_stored
    \/ update_returns
    \/ monitor_iteration_started
    \/ \E c \in NameInputs : monitor_item_read(c)
    \/ monitor_raises
    \/ monitor_failure_logged
    \/ monitor_returns

SpecRace == RaceInit /\ [][RaceNext]_vars

(***************************************************************************)
(* GoalManager                                                             *)
(***************************************************************************)
ManagerRun == [set_goal |-> MaxManagerGoals, update_goal_progress |-> MaxManagerUpdates]

allowed_improvement_areas == {"knowledge_base", "response_quality", "reasoning_process"}

AreaInputs == {"knowledge_base", "invalid_area"}
PriorityInputs == {0, 3, 9}
ManagerProgressInputs == {-10, 50, 100, 120}
ManagerIdInputs == DOMAIN gm_progress \cup {NoSuchId}

KeepOthers == UNCHANGED <<now, gvars, svars, health_case, rvars, limits>>

\* an event of the goal history; events without previous and current carry NoTime
HistoryEvent(event, goal_id, previous, current) ==
    [event |-> event, goal_id |-> goal_id, previous |-> previous, current |-> current]

\* a test of the area that lets every area through
AreaAllowedAlways(area) == TRUE

AreaAllowed(area) == area \in allowed_improvement_areas

manager_set_goal(area, description, priority) ==
    /\ call' = "GoalManager.set_goal"
    /\ IF ~AreaAllowed(area)
       THEN /\ ret' = [status |-> "None", value |-> NoSuchId]
            /\ UNCHANGED <<mvars, used>>
       ELSE LET goal_id == <<now, Len(gm_goals)>>
                goal == [id |-> goal_id, area |-> area, description |-> description,
                         priority |-> Max(1, Min(5, priority)), created_at |-> now,
                         status |-> "active"]
            IN  /\ Within("set_goal")
                /\ used' = Count("set_goal")
                /\ gm_goals' = Append(gm_goals, goal)
                /\ gm_priorities' = SetKey(gm_priorities, goal_id, goal.priority)
                /\ gm_progress' = SetKey(gm_progress, goal_id, 0)
                /\ goal_history' = Append(goal_history,
                                          HistoryEvent("goal_created", goal_id, NoTime, NoTime))
                /\ ret' = [status |-> "returned", value |-> goal_id]
    /\ KeepOthers /\ UNCHANGED plvars

\* a test of completion that no clamped progress passes
GoalCompletedAbove(current) == current > 100

\* the check of update_goal_progress for a completed goal
GoalCompleted(current) == current >= 100

\* goals with the status of the first goal of the given id set to completed
CompletedIn(gs, goal_id) ==
    LET found == {i \in DOMAIN gs : gs[i].id = goal_id}
    IN  IF found = {} THEN gs
        ELSE LET first == CHOOSE i \in found : \A j \in found : i <= j
             IN  [gs EXCEPT ![first].status = "completed"]

update_goal_progress(goal_id, progress) ==
    /\ call' = "GoalManager.update_goal_progress"
    /\ IF goal_id \notin DOMAIN gm_progress
       THEN /\ ret' = [status |-> "returned", value |-> FALSE]
            /\ UNCHANGED <<mvars, used>>
       ELSE LET previous_progress == gm_progress[goal_id]
                current == Max(0, Min(100, progress))
                updated == Append(goal_history,
                                  HistoryEvent("progress_updated", goal_id,
                                               previous_progress, current))
                known == \E i \in DOMAIN gm_goals : gm_goals[i].id = goal_id
            IN  /\ Within("update_goal_progress")
                /\ used' = Count("update_goal_progress")
                /\ gm_progress' = [gm_progress EXCEPT ![goal_id] = current]
                /\ IF GoalCompleted(current) /\ known
                   THEN /\ gm_goals' = CompletedIn(gm_goals, goal_id)
                        /\ goal_history' = Append(updated,
                                                  HistoryEvent("goal_completed", goal_id,
                                                               NoTime, NoTime))
                   ELSE /\ gm_goals' = gm_goals
                        /\ goal_history' = updated
                /\ gm_priorities' = gm_priorities
                /\ ret' = [status |-> "returned", value |-> TRUE]
    /\ KeepOthers /\ UNCHANGED plvars

ManagerInit ==
    /\ health_case = HealthCase(0, 0, 0)
    /\ caller = IdleCaller
    /\ evaluation = IdleEvaluation
    /\ ManagerConstructed
    /\ PlannerConstructed(10, TRUE)
    /\ now = StartTime
    /\ call = "init"
    /\ ret = [status |-> "none", value |-> NoSuchId]
    /\ limits = ManagerRun
    /\ used = [op \in DOMAIN limits |-> 0]
    /\ SPConstructed
    /\ GoalConstructed

ManagerNext ==
    \/ \E a \in AreaInputs, d \in {"d"}, p \in PriorityInputs : manager_set_goal(a, d, p)
    \/ \E id \in ManagerIdInputs, p \in ManagerProgressInputs : update_goal_progress(id, p)

SpecManager == ManagerInit /\ [][ManagerNext]_vars

(***************************************************************************)
(* Planner, and the planning requests of ResponsibleAssistant              *)
(***************************************************************************)
PlannerRun == [create_plan |-> MaxPlans, execute_plan |-> MaxExecutions]

\* objectives by the keyword _extract_tasks finds in them
ObjectiveInputs == {"analyze", "create", "other"}
StepInputs == {0, 2, 10}
PlanIdInputs == DOMAIN active_plans \cup {0}

KeepPlannerOthers == UNCHANGED <<now, gvars, svars, health_case, rvars, mvars, limits,
                                 max_steps, requires_oversight>>

_extract_tasks(objective) ==
    IF objective = "analyze"
    THEN <<"Gather relevant data for analysis", "Perform initial data processing",
           "Conduct analysis", "Summarize findings">>
    ELSE IF objective = "create"
    THEN <<"Define requirements and specifications", "Design the structure or framework",
           "Implement core components", "Test and refine">>
    ELSE <<"Analyze the objective", "Identify key components",
           "Process each component", "Synthesize results">>

\* the plan create_plan builds; its id is one that no other plan has
NewPlan(objective) ==
    LET tasks == _extract_tasks(objective)
    IN  [id |-> Cardinality(DOMAIN active_plans) + 1,
         objective |-> objective,
         tasks |-> IF Len(tasks) > max_steps THEN SubSeq(tasks, 1, max_steps) ELSE tasks,
         status |-> IF requires_oversight THEN "pending_approval" ELSE "ready",
         progress |-> 0,
         results |-> [type |-> "dict", items |-> <<>>],
         execution_times |-> 0]

\* a check that lets every plan through
NeedsApprovalNever(plan) == FALSE

\* the check of execute_plan that stops a plan waiting for approval
NeedsApproval(plan) == plan.status = "pending_approval" /\ requires_oversight

\* the plan after execute_plan has run its tasks
ExecutedPlan(plan) ==
    [plan EXCEPT !.execution_times = @ + 1,
                 !.progress = IF Len(plan.tasks) > 0
                              THEN (Len(plan.tasks) * 100) \div Len(plan.tasks) ELSE @,
                 !.status = "completed",
                 !.results = [type |-> "list", items |-> plan.tasks]]

create_plan(objective) ==
    /\ Within("create_plan")
    /\ used' = Count("create_plan")
    /\ call' = "create_plan"
    /\ ret' = [status |-> "returned", value |-> NewPlan(objective).status]
    /\ active_plans' = SetKey(active_plans, NewPlan(objective).id, NewPlan(objective))
    /\ UNCHANGED <<plan_history, approved>>
    /\ KeepPlannerOthers

\* execute_plan given the plan object that active_plans holds under plan_id
execute_plan(plan_id) ==
    /\ plan_id \in DOMAIN active_plans
    /\ call' = "execute_plan"
    /\ IF NeedsApproval(active_plans[plan_id])
       THEN /\ ret' = [status |-> "returned", value |-> "requires approval"]
            /\ UNCHANGED <<active_plans, plan_history, used>>
       ELSE /\ Within("execute_plan")
            /\ used' = Count("execute_plan")
            /\ active_plans' = [active_plans EXCEPT ![plan_id] = ExecutedPlan(@)]
            /\ plan_history' = Append(plan_history, ExecutedPlan(active_plans[plan_id]))
            /\ ret' = [status |-> "returned", value |-> "results"]
    /\ UNCHANGED approved
    /\ KeepPlannerOthers

approve_plan(plan_id) ==
    /\ call' = "approve_plan"
    /\ IF plan_id \notin DOMAIN active_plans
       THEN /\ ret' = [status |-> "returned", value |-> "False"]
            /\ UNCHANGED <<active_plans, approved>>
       ELSE IF active_plans[plan_id].status # "pending_approval"
       THEN /\ ret' = [status |-> "returned", value |-> "False"]
            /\ UNCHANGED <<active_plans, approved>>
       ELSE /\ active_plans' = [active_plans EXCEPT ![plan_id].status = "ready"]
            /\ approved' = approved \cup {plan_id}
            /\ ret' = [status |-> "returned", value |-> "True"]
    /\ UNCHANGED <<plan_history, used>>
    /\ KeepPlannerOthers

\* ResponsibleAssistant._handle_planning_request: the plan is described when
\* oversight is required and executed at once when it is not
_handle_planning_request(objective) ==
    /\ Within("create_plan")
    /\ call' = "_handle_planning_request"
    /\ IF requires_oversight
       THEN /\ used' = Count("create_plan")
            /\ active_plans' = SetKey(active_plans, NewPlan(objective).id, NewPlan(objective))
            /\ ret' = [status |-> "returned", value |-> "requires approval"]
            /\ UNCHANGED plan_history
       ELSE /\ Within("execute_plan")
            /\ used' = [used EXCEPT !["create_plan"] = @ + 1, !["execute_plan"] = @ + 1]
            /\ active_plans' = SetKey(active_plans, NewPlan(objective).id,
                                      ExecutedPlan(NewPlan(objective)))
            /\ plan_history' = Append(plan_history, ExecutedPlan(NewPlan(objective)))
            /\ ret' = [status |-> "returned", value |-> "results"]
    /\ UNCHANGED approved
    /\ KeepPlannerOthers

PlannerInit ==
    /\ health_case = HealthCase(0, 0, 0)
    /\ caller = IdleCaller
    /\ evaluation = IdleEvaluation
    /\ ManagerConstructed
    /\ \E steps \in StepInputs, oversight \in BOOLEAN : PlannerConstructed(steps, oversight)
    /\ now = StartTime
    /\ call = "init"
    /\ ret = [status |-> "none", value |-> None]
    /\ limits = PlannerRun
    /\ used = [op \in DOMAIN limits |-> 0]
    /\ SPConstructed
    /\ GoalConstructed

PlannerNext ==
    \/ \E o \in ObjectiveInputs : create_plan(o)
    \/ \E id \in PlanIdInputs : execute_plan(id)
    \/ \E id \in PlanIdInputs : approve_plan(id)
    \/ \E o \in ObjectiveInputs : _handle_planning_request(o)

SpecPlanner == PlannerInit /\ [][PlannerNext]_vars

(***************************************************************************)
(* GoalSystem.get_next_task, with the goal operations that prepare its     *)
(* cases: dependencies, stalled goals that reviews remove, priorities      *)
(***************************************************************************)
\* A stalled run reviews two goals until the stalled one is removed; a task
\* run asks for the next task among goals with priorities and dependencies.
StalledRun == [set_goal |-> 2, decompose_goal |-> 0, update_progress |-> 1, add_dependency |-> 1,
               review_goals |-> MaxStalledReviews, tick |-> 1, restart |-> 0, get_next_task |-> 1]
TaskRun == [set_goal |-> 3, decompose_goal |-> 1, update_progress |-> 1, add_dependency |-> 1,
            review_goals |-> 0, tick |-> 0, restart |-> 0, get_next_task |-> MaxTasks]
TaskRuns == {StalledRun, TaskRun}

\* the place of goal i in sorted(self.goals, key=priority, reverse=True), a stable sort
PriorityRank(gs, i) ==
    1 + Cardinality({j \in DOMAIN gs :
                        \/ gs[j].priority > gs[i].priority
                        \/ gs[j].priority = gs[i].priority /\ j < i})

\* get_active_goals(): the indexes of self.goals in priority order
get_active_goals(gs) ==
    [k \in 1..Len(gs) |-> CHOOSE i \in DOMAIN gs : PriorityRank(gs, i) = k]

RECURSIVE DependenciesPending(_, _, _, _)
\* any(self.get_goal(dep_id)["status"] != "completed" ...) from the k-th dependency:
\* "raised" when get_goal returns None before a pending dependency is found
DependenciesPending(gs, cs, deps, k) ==
    IF k > Len(deps) THEN "no"
    ELSE IF GetGoalLoc(gs, cs, deps[k]).where = "none" THEN "raised"
    ELSE IF get_goal(gs, cs, deps[k]).status # "completed" THEN "yes"
    ELSE DependenciesPending(gs, cs, deps, k + 1)

\* self.goals after decompose_goal(goal_id) called from get_next_task
DecomposedIn(gs, cs, goal_id) ==
    LET loc == GetGoalLoc(gs, cs, goal_id)
        goal == get_goal(gs, cs, goal_id)
    IN  IF AlreadyDecomposed(goal) THEN gs
        ELSE PutGoal(gs, cs, loc, [goal EXCEPT !.subtasks = DecomposedSubtasks(goal_id)])[1]

\* the index of the first subtask that is not completed, 0 without one
FirstIncomplete(subtasks) ==
    IF \A i \in DOMAIN subtasks : subtasks[i].completed THEN 0
    ELSE CHOOSE i \in DOMAIN subtasks :
            ~subtasks[i].completed /\ \A j \in 1..(i - 1) : subtasks[j].completed

RECURSIVE NextTaskFrom(_, _, _, _)
\* the loop of get_next_task over the sorted goals from place k: the goals it
\* leaves (goals it decomposed on the way) and what the call returns or raises
NextTaskFrom(gs, cs, order, k) ==
    IF k > Len(order) THEN [goals |-> gs, status |-> "none", task |-> None]
    ELSE LET i == order[k]
             pending == DependenciesPending(gs, cs, gs[i].dependencies, 1)
         IN  IF pending = "raised" THEN [goals |-> gs, status |-> "raised", task |-> "TypeError"]
             ELSE IF pending = "yes" THEN NextTaskFrom(gs, cs, order, k + 1)
             ELSE LET gs2 == IF gs[i].subtasks = <<>> THEN DecomposedIn(gs, cs, gs[i].id) ELSE gs
                      first == FirstIncomplete(gs2[i].subtasks)
                  IN  IF first # 0
                      THEN [goals |-> gs2, status |-> "task",
                            task |-> [goal_id |-> gs2[i].id,
                                      subtask_id |-> gs2[i].subtasks[first].id,
                                      priority |-> gs2[i].priority]]
                      ELSE NextTaskFrom(gs2, cs, order, k + 1)

get_next_task ==
    LET found == NextTaskFrom(goals, completed_goals, get_active_goals(goals), 1)
    IN  /\ Within("get_next_task")
        /\ used' = Count("get_next_task")
        /\ call' = "get_next_task"
        /\ ret' = [status |-> found.status, value |-> found.task]
        /\ goals' = found.goals
        /\ data_file' = IF found.goals # goals THEN _save_data(found.goals, completed_goals)
                        ELSE data_file
        /\ UNCHANGED <<completed_goals, next_review_time, created_count>>
        /\ UNCHANGED <<now, svars, limits, ovars>>

TaskInit ==
    /\ OthersIdle
    /\ now = StartTime
    /\ call = "init"
    /\ ret = [status |-> "none", value |-> None]
    /\ GoalConstructed
    /\ limits \in TaskRuns
    /\ used = [op \in DOMAIN limits |-> 0]
    /\ SPConstructed

\* the goals a run sets: a run that reviews sets goals of one kind
RunGoalInputs ==
    IF limits["review_goals"] = 0 THEN GoalInputs ELSE {[type |-> "optimization", priority |-> 9]}

TaskNext ==
    \/ \E g \in RunGoalInputs : set_goal("d", g.type, g.priority)
    \/ \E id \in KnownIds : decompose_goal(id)
    \/ \E id \in KnownIds, p \in {40, 120} : update_progress(id, p, <<>>)
    \/ \E id \in KnownIds, dep \in KnownIds : add_dependency(id, dep)
    \/ review_goals
    \/ get_next_task
    \/ \E d \in {ReviewIntervalSecs} : GTick(d)

SpecTask == TaskInit /\ [][TaskNext]_vars

\* A priority run reviews goals that make no progress until they are removed.
PriorityRun == [set_goal |-> 2, decompose_goal |-> 0, update_progress |-> 1, add_dependency |-> 0,
                review_goals |-> MaxStalledReviews, tick |-> 1, restart |-> 0, get_next_task |-> 0]

PriorityInit ==
    /\ OthersIdle
    /\ now = StartTime
    /\ call = "init"
    /\ ret = [status |-> "none", value |-> None]
    /\ GoalConstructed
    /\ limits = PriorityRun
    /\ used = [op \in DOMAIN limits |-> 0]
    /\ SPConstructed

PriorityNext ==
    \/ \E g \in GoalInputs : set_goal("d", g.type, g.priority)
    \/ \E id \in KnownIds, p \in {40, 120} : update_progress(id, p, <<>>)
    \/ review_goals
    \/ \E d \in {ReviewIntervalSecs} : GTick(d)

SpecPriority == PriorityInit /\ [][PriorityNext]_vars

(***************************************************************************)
(* Properties of GoalSystem                                                *)
(***************************************************************************)
AllGoals == goals \o completed_goals
AllGoalsNext == goals' \o completed_goals'

\* the dependency list of the goal that get_goal resolves an id to
DirectDeps(id) == Range(get_goal(goals, completed_goals, id).dependencies) \cap KnownIds

\* the ids reached from ids in at most n steps along the dependency lists,
\* every id resolved the way get_goal resolves it
RECURSIVE DepReach(_, _)
DepReach(ids, n) ==
    IF n = 0 THEN ids
    ELSE DepReach(ids \cup UNION {DirectDeps(id) : id \in ids}, n - 1)

DependencyCycle == \E id \in KnownIds : id \in DepReach(DirectDeps(id), Cardinality(KnownIds))

IdsUnique == \A i, j \in DOMAIN AllGoals : AllGoals[i].id = AllGoals[j].id => i = j

\* C1: across every update_progress call the stored progress of each goal is
\* at least what it was before the call.
C1_ProgressNonDecreasing ==
    [][call' = "update_progress" =>
          \A i \in DOMAIN goals : \A j \in DOMAIN AllGoalsNext :
              AllGoalsNext[j].created_at = goals[i].created_at
                  => AllGoalsNext[j].progress >= goals[i].progress]_vars

\* C2: update_progress on a goal whose status is completed returns an error
\* and leaves both collections (hence progress, status, subtasks and
\* completed_at of every goal) as they were.
C2_CompletedGoalRejected ==
    [][call' = "update_progress" =>
          \/ /\ ret'.status = "error"
             /\ goals' = goals
             /\ completed_goals' = completed_goals
          \/ \A id \in IdInputs :
                 (/\ GetGoalLoc(goals, completed_goals, id).where # "none"
                  /\ get_goal(goals, completed_goals, id).status = "completed")
                 => \A p \in ProgressInputs, cs \in SubtaskInputs : ~update_progress(id, p, cs)]_vars

C2_Witness ==
    /\ call = "update_progress"
    /\ ret.status = "error"
    /\ ret.value = "Goal already completed"
    /\ \E i \in DOMAIN completed_goals : completed_goals[i].status = "completed"

CollectionsConsistent ==
    /\ \A i \in DOMAIN goals : goals[i].status = "active"
    /\ \A i \in DOMAIN completed_goals : completed_goals[i].status = "completed"
    /\ \A i, j \in DOMAIN AllGoals : AllGoals[i].created_at = AllGoals[j].created_at => i = j

\* C3: a completed goal is in the completed collection exactly once and not
\* in the active one, every goal of the active collection is active, and a
\* goal of the completed collection never comes back to the active one.
C3_CompletedIsOneWay ==
    /\ []CollectionsConsistent
    /\ [][\A i \in DOMAIN completed_goals : \A j \in DOMAIN goals' :
              goals'[j].created_at # completed_goals[i].created_at]_vars

C3_Witness ==
    /\ call = "update_progress"
    /\ ret.status = "success"
    /\ ret.value >= 100
    /\ Len(completed_goals) >= 1
    /\ Len(goals) >= 1

\* C4: the dependency graph over goals never contains a cycle.
C4_NoDependencyCycle == ~DependencyCycle

\* C9: a review_goals call that directly follows a review_goals call which ran
\* the review (no clock step in between) is skipped and changes nothing.
C9_SecondReviewSkipped ==
    [][(call = "review_goals" /\ ret.status # "skipped" /\ call' = "review_goals")
          => /\ ret'.status = "skipped"
             /\ goals' = goals
             /\ completed_goals' = completed_goals
             /\ next_review_time' = next_review_time]_vars

\* Supporting fact for C4: as long as goal ids are unique no cycle arises.
NoCycleWhileIdsUnique == IdsUnique => ~DependencyCycle

\* C13: a goal whose subtasks are all marked completed has progress 100 and
\* status completed.
C13_AllSubtasksCompleteGoal ==
    \A i \in DOMAIN AllGoals :
        (/\ AllGoals[i].subtasks # <<>>
         /\ \A k \in DOMAIN AllGoals[i].subtasks : AllGoals[i].subtasks[k].completed)
        => AllGoals[i].progress = 100 /\ AllGoals[i].status = "completed"

C13_Witness ==
    /\ call = "update_progress"
    /\ ret.status = "success"
    /\ \E i \in DOMAIN completed_goals :
           /\ completed_goals[i].subtasks # <<>>
           /\ \A k \in DOMAIN completed_goals[i].subtasks : completed_goals[i].subtasks[k].completed

\* C14: the progress of every goal of either collection is within 0..100.
C14_ProgressInRange ==
    \A i \in DOMAIN AllGoals : 0 <= AllGoals[i].progress /\ AllGoals[i].progress <= 100

\* a reported value below 0 was stored as 0 after a reported value above 100
\* completed a goal without subtasks
C14_Witness ==
    /\ call = "update_progress"
    /\ ret.status = "success"
    /\ ret.value = 0
    /\ \E i \in DOMAIN completed_goals :
           completed_goals[i].subtasks = <<>> /\ completed_goals[i].progress = 100

\* C15: decompose_goal on a goal that already has subtasks returns that list,
\* whose ids are in the order of the first decomposition, and changes no goal
\* (no completed flag is reset).
C15_DecomposeIsIdempotent ==
    [][call' = "decompose_goal" =>
          \A id \in IdInputs :
              (/\ GetGoalLoc(goals, completed_goals, id).where # "none"
               /\ get_goal(goals, completed_goals, id).subtasks # <<>>
               /\ decompose_goal(id))
              => /\ goals' = goals
                 /\ completed_goals' = completed_goals
                 /\ ret'.value = get_goal(goals, completed_goals, id).subtasks
                 /\ [k \in DOMAIN ret'.value |-> ret'.value[k].id]
                        = [k \in 1..NumSubtasks |-> DecomposedSubtasks(id)[k].id]]_vars

\* a second decompose_goal on a goal some of whose subtasks are completed
C15_Witness ==
    /\ call = "decompose_goal"
    /\ ret.value # <<>>
    /\ \E k \in DOMAIN ret.value : ret.value[k].completed
    /\ \E k \in DOMAIN ret.value : ~ret.value[k].completed

(***************************************************************************)
(* Properties of SelfPreservation                                          *)
(***************************************************************************)

\* C5: once system_state is shutting_down, no step of report_error,
\* update_component_state, monitor_system_health or the monitoring loop (with
\* the recovery attempts they make) changes it.
C5_ShuttingDownIsTerminal ==
    [][(/\ system_state = "shutting_down"
        /\ call' \in {"report_error", "update_component_state", "monitor_system_health", "loop_pass"})
          => system_state' = "shutting_down"]_vars

\* C6: every pass of the monitoring loop is run by the thread that the last
\* start_monitoring created: a loop that was stopped runs no further tick, so
\* at most one loop is ticking.
C6_OnlyCurrentLoopTicks ==
    [][call' = "loop_pass" => ticker' = monitoring_thread]_vars

\* C7: when the monitoring loop runs recovery for a critical health snapshot,
\* total_recoveries grows by the number of components in error state.
C7_OneRecoveryPerErrorComponent ==
    [][(call' = "loop_pass" /\ HealthStatus(Self).status = "critical")
          => recovery_counters'.total_recoveries =
                 recovery_counters.total_recoveries
                     + Cardinality(HealthStatus(Self).error_components)]_vars

\* C8: with safety_filter and worker registered, safety_filter in error and
\* worker active after an update_component_state call, the monitor_system_health
\* call that follows reports status critical and a health_score of at most 80.
C8_CriticalComponentErrorIsCritical ==
    [][(/\ call = "update_component_state" /\ ret.value = TRUE
        /\ DOMAIN component_states = {"safety_filter", "worker"}
        /\ component_states["safety_filter"].state = "error"
        /\ component_states["worker"].state = "active"
        /\ call' = "monitor_system_health")
          => ret'.status = "critical" /\ ret'.value <= 80]_vars

\* C10: update_component_state and component_heartbeat on a name that is not
\* registered return False and leave the registry, the error log and
\* system_state as they were.
C10_UnregisteredNameFails ==
    [][\A n \in NameInputs :
          (/\ n \notin DOMAIN component_states
           /\ \/ component_heartbeat(n)
              \/ \E st \in StateInputs : update_component_state(n, st))
          => /\ ret'.value = FALSE
             /\ component_states' = component_states
             /\ error_log' = error_log
             /\ system_state' = system_state]_vars

C10_Witness ==
    /\ call \in {"update_component_state", "component_heartbeat"}
    /\ ret.value = FALSE
    /\ DOMAIN component_states # {}
    /\ DOMAIN component_states # NameInputs

\* C16: one more component in error state, the other counts fixed, never
\* raises the health score, and the score is within 0..100.
C16_ScoreNonIncreasingInErrors ==
    /\ [](health_case.score >= 0 /\ health_case.score <= 100)
    /\ [][health_case'.errors = health_case.errors + 1
             => health_case'.score <= health_case.score]_vars

\* the deductions of five error components passed the lower limit of the score
C16_Witness ==
    /\ call = "monitor_system_health"
    /\ health_case.errors >= 5
    /\ health_case.score = 0
    /\ 100 - health_case.inactive * 15 - health_case.errors * 20 - health_case.recent * 5 < 0

\* a call of update_component_state made statement by statement leaves the entry
\* that the call made in one step leaves
StepwiseUpdateAgrees ==
    [][~CallerIdle /\ caller'.pc = "idle"
          => component_states'[caller.component_name] = caller.after]_vars

\* C17: under every interleaving of a mutating caller with the monitoring
\* thread, an evaluation does not fail because the registry changed while it
\* was read, and every component entry it read is one that a read serialized
\* with the mutation returns (the entry before it or the entry after it).
C17_EvaluationSerialized ==
    /\ evaluation.pc # "failed"
    /\ \A c \in DOMAIN evaluation.seen : evaluation.seen[c] \in evaluation.serial[c]

(***************************************************************************)
(* Properties of GoalManager                                               *)
(***************************************************************************)
\* C18: set_goal with an area outside the allowed improvement areas returns
\* None and leaves goals, priorities, progress and the goal history as they were.
C18_InvalidAreaChangesNothing ==
    [][\A a \in AreaInputs \ allowed_improvement_areas, p \in PriorityInputs :
          manager_set_goal(a, "d", p)
          => /\ ret'.status = "None"
             /\ gm_goals' = gm_goals
             /\ gm_priorities' = gm_priorities
             /\ gm_progress' = gm_progress
             /\ goal_history' = goal_history]_vars

\* a goal exists and has progressed when a call with an invalid area returned None
C18_Witness ==
    /\ call = "GoalManager.set_goal"
    /\ ret.status = "None"
    /\ gm_goals # <<>>
    /\ Len(goal_history) > Len(gm_goals)

\* C19: update_goal_progress on a known goal whose clamped progress is 100
\* sets the goal's status to completed and appends one progress_updated event
\* followed by one goal_completed event of that goal; with a progress below
\* 100 it appends only the progress_updated event with the previous and the
\* current value.
C19_CompletionEvents ==
    [][\A id \in DOMAIN gm_progress, p \in ManagerProgressInputs :
          update_goal_progress(id, p)
          => LET n == Len(goal_history)
                 current == IF p < 0 THEN 0 ELSE IF p > 100 THEN 100 ELSE p
                 progress_updated ==
                     [event |-> "progress_updated", goal_id |-> id,
                      previous |-> gm_progress[id], current |-> current]
             IN  /\ ret'.value = TRUE
                 /\ gm_progress'[id] = current
                 /\ IF current = 100
                    THEN /\ \A i \in DOMAIN gm_goals' :
                               gm_goals'[i].id = id => gm_goals'[i].status = "completed"
                         /\ Len(goal_history') = n + 2
                         /\ SubSeq(goal_history', 1, n) = goal_history
                         /\ goal_history'[n + 1] = progress_updated
                         /\ goal_history'[n + 2].event = "goal_completed"
                         /\ goal_history'[n + 2].goal_id = id
                    ELSE goal_history' = Append(goal_history, progress_updated)]_vars

\* one goal has been completed and another has been updated below 100
C19_Witness ==
    /\ call = "GoalManager.update_goal_progress"
    /\ ret.value = TRUE
    /\ \E i \in DOMAIN goal_history :
           /\ goal_history[i].event = "goal_completed"
           /\ i > 1
           /\ goal_history[i - 1].event = "progress_updated"
           /\ goal_history[i - 1].current = 100
    /\ goal_history[Len(goal_history)].event = "progress_updated"
    /\ goal_history[Len(goal_history)].current = 50

(***************************************************************************)
(* Properties of Planner                                                   *)
(***************************************************************************)
\* C20: with requires_oversight set, execute_plan on a plan whose status is
\* pending_approval returns the approval-required message and leaves the
\* plan's status, progress and results and the plan history as they were,
\* and a plan has status completed only after approve_plan returned True for it.
C20_NoExecutionBeforeApproval ==
    /\ [][\A id \in DOMAIN active_plans :
             (/\ requires_oversight
              /\ active_plans[id].status = "pending_approval"
              /\ execute_plan(id))
             => /\ ret'.value = "requires approval"
                /\ active_plans'[id].status = "pending_approval"
                /\ active_plans'[id].progress = active_plans[id].progress
                /\ active_plans'[id].results = active_plans[id].results
                /\ plan_history' = plan_history]_vars
    /\ [](requires_oversight
            => \A id \in DOMAIN active_plans :
                  active_plans[id].status = "completed" => id \in approved)

\* execute_plan has just refused a plan waiting for approval while another
\* plan, approved before, has been executed to completion
C20_Witness ==
    /\ requires_oversight
    /\ call = "execute_plan"
    /\ ret.value = "requires approval"
    /\ \E id \in DOMAIN active_plans :
           /\ active_plans[id].status = "completed"
           /\ active_plans[id].progress = 100
           /\ id \in approved
    /\ \E id \in DOMAIN active_plans : active_plans[id].status = "pending_approval"
    /\ plan_history # <<>>

(***************************************************************************)
(* Properties of get_next_task and of the reviews                          *)
(***************************************************************************)
\* an active goal whose dependencies all resolve to completed goals
DependenciesCompleted(g) ==
    \A k \in DOMAIN g.dependencies :
        /\ GetGoalLoc(goals, completed_goals, g.dependencies[k]).where # "none"
        /\ get_goal(goals, completed_goals, g.dependencies[k]).status = "completed"

\* an active goal that get_next_task may take a task from: its dependencies
\* are completed and it has no subtasks yet or a subtask that is not completed
Eligible(g) ==
    /\ DependenciesCompleted(g)
    /\ \/ g.subtasks = <<>>
       \/ \E k \in DOMAIN g.subtasks : ~g.subtasks[k].completed

\* C21: once a review has run, every id in an active goal's dependency list
\* refers to a goal that exists and is not completed, and get_next_task
\* returns a task or none and does not raise.
C21_DependenciesLiveAfterReview ==
    /\ [][call' = "review_goals" /\ ret'.status \in {"success", "raised"}
            => \A i \in DOMAIN goals' : \A k \in DOMAIN goals'[i].dependencies :
                  /\ GetGoalLoc(goals', completed_goals', goals'[i].dependencies[k]).where # "none"
                  /\ get_goal(goals', completed_goals', goals'[i].dependencies[k]).status
                        # "completed"]_vars
    /\ [](call = "get_next_task" => ret.status \in {"task", "none"})

\* C22: no two goals among the active and the completed goals carry the
\* same id.
C22_GoalIdsUnique ==
    \A i, j \in 1..(Len(goals) + Len(completed_goals)) :
        i # j => (goals \o completed_goals)[i].id # (goals \o completed_goals)[j].id

\* C26: a review that runs removes an active goal whose review count after
\* the increment exceeds 3 with progress under 30 when the count exceeds 5
\* (it does not join the completed goals) and otherwise lowers its priority
\* by exactly one, not below 1; every other goal keeps its priority; and in
\* every reachable state every goal's priority is within 1..5.
C26_StalledGoalsLowered ==
    /\ [][call' = "review_goals" /\ ret'.status # "skipped"
            => \A i \in DOMAIN goals :
                  LET g == goals[i]
                      stalled == g.review_count + 1 > 3 /\ g.progress < 30
                      After == {j \in DOMAIN goals' : goals'[j].created_at = g.created_at}
                  IN  IF stalled /\ g.review_count + 1 > 5
                      THEN /\ After = {}
                           /\ \A j \in DOMAIN completed_goals' :
                                 completed_goals'[j].created_at # g.created_at
                      ELSE /\ After # {}
                           /\ \A j \in After :
                                 goals'[j].priority =
                                     IF stalled /\ g.priority > 1 THEN g.priority - 1
                                     ELSE g.priority]_vars
    /\ [](\A i \in DOMAIN AllGoals : AllGoals[i].priority \in 1..5)

\* the sixth review has just removed a stalled goal, and the stalled goal
\* that is left was reviewed at priority 1 and kept it
C26_Witness ==
    /\ call = "review_goals"
    /\ ret.status # "skipped"
    /\ used["review_goals"] = 6
    /\ Len(goals) = 1
    /\ completed_goals = <<>>
    /\ used["set_goal"] = 2
    /\ goals[1].priority = 1
    /\ goals[1].review_count >= 4

\* C23: get_next_task returns the first incomplete subtask of an active goal
\* whose dependencies are all completed and than which no eligible active
\* goal has a strictly higher priority, and returns none only when no active
\* goal is eligible.
C23_NextTaskByPriority ==
    [][call' = "get_next_task"
         => /\ ret'.status = "task"
                => \E i \in DOMAIN goals :
                      /\ goals[i].id = ret'.value.goal_id
                      /\ goals[i].priority = ret'.value.priority
                      /\ DependenciesCompleted(goals[i])
                      /\ \E k \in DOMAIN goals'[i].subtasks :
                            /\ goals'[i].subtasks[k].id = ret'.value.subtask_id
                            /\ ~goals'[i].subtasks[k].completed
                            /\ \A j \in 1..(k - 1) : goals'[i].subtasks[j].completed
                      /\ \A j \in DOMAIN goals :
                            Eligible(goals[j]) => goals[j].priority <= goals[i].priority
            /\ ret'.status = "none" => \A i \in DOMAIN goals : ~Eligible(goals[i])]_vars

(***************************************************************************)
(* Properties of error reports and of the health evaluation                *)
(***************************************************************************)
\* the health tiers of system_state, a healthier tier first
Tier(state) == IF state = "critical" THEN 2 ELSE IF state = "degraded" THEN 1 ELSE 0

\* a report_error call with error_data that has taken the step
Reports(error_data) == error_data.complete /\ report_error(error_data)

\* C24: a report_error call with severity critical does not move
\* system_state to a healthier tier: critical stays critical.
C24_CriticalReportOnlyDowngrades ==
    [][\A e \in ErrorInputs :
          Reports(e) /\ e.severity = "critical"
              /\ system_state \in {"stable", "degraded", "critical"}
          => Tier(system_state') >= Tier(system_state)]_vars

\* C25: after a monitor_system_health call made while system_state is not
\* shutting_down, system_state agrees with the status the call computed.
C25_StateAgreesWithStatus ==
    [][call' = "monitor_system_health" /\ system_state # "shutting_down"
          => system_state' = (IF ret'.status = "healthy" THEN "stable" ELSE ret'.status)]_vars

\* C27: a report_error call with the required fields, requires_immediate_recovery
\* set and a registered recovery_type makes one recovery attempt of that type,
\* whatever its severity.
C27_ImmediateRecoveryAttempted ==
    [][\A e \in ErrorInputs :
          Reports(e) /\ e.requires_immediate_recovery /\ e.recovery_type \in recovery_strategies
          => /\ recovery_counters'.total_recoveries = recovery_counters.total_recoveries + 1
             /\ e.recovery_type \in DOMAIN recovery_counters'.strategy_usage
             /\ recovery_counters'.strategy_usage[e.recovery_type] =
                    (IF e.recovery_type \in DOMAIN recovery_counters.strategy_usage
                     THEN recovery_counters.strategy_usage[e.recovery_type] ELSE 0) + 1]_vars

\* a step that is one pass of the monitoring loop
PassTaken == used'["loop_pass"] = used["loop_pass"] + 1

\* the pass has written a snapshot / has logged the failure of its snapshot
SnapshotWritten == PassTaken /\ last_state_save' = now /\ last_state_save # now
SnapshotFailed ==
    /\ PassTaken
    /\ Len(error_log') > Len(error_log)
    /\ error_log'[Len(error_log')].type = "state_save_failure"

\* C28: a pass of the monitoring loop attempts a snapshot exactly when the
\* time since last_state_save has reached the save interval; last_state_save
\* advances only when the file was written; a failed snapshot leaves the
\* thread in the loop, is recorded in the error log and, last_state_save
\* being unchanged, is attempted again by the next pass.
C28_SnapshotRetriedAfterFailure ==
    [][PassTaken
         => /\ (SnapshotWritten \/ SnapshotFailed) <=> now - last_state_save >= state_save_interval
            /\ last_state_save' # last_state_save
                   => /\ last_state_save' = now
                      /\ now \in DOMAIN artifacts_written'
                      /\ ~SnapshotFailed
            /\ SnapshotFailed
                   => /\ last_state_save' = last_state_save
                      /\ threads'[ticker'] = "sleeping"
                      /\ now - last_state_save' >= state_save_interval]_vars

\* two passes of the loop in a row have failed to write the snapshot
C28_Witness ==
    /\ call = "loop_pass"
    /\ used["loop_pass"] >= 2
    /\ Cardinality({i \in DOMAIN error_log : error_log[i].type = "state_save_failure"}) >= 2
    /\ error_log[Len(error_log)].type = "state_save_failure"
    /\ threads[ticker] = "sleeping"
    /\ now - last_state_save >= state_save_interval

\* C29: in every reachable state the error log holds at most 1000 records.
C29_ErrorLogBounded == Len(error_log) <= ErrorLogCap

\* thread t has been started and has not ended
Running(t) == t \in DOMAIN threads /\ threads[t] # "done"

\* thread t has just caught an exception raised in its n-th pass
Caught(t, n) ==
    /\ Running(t)
    /\ call = "loop_pass" /\ ret.status = "raised" /\ ticker = t
    /\ used["loop_pass"] = n

\* C30: a monitoring thread ends only at a loop test that finds
\* monitoring_active false; an exception in a pass is caught and, while the
\* flag stays true, another pass follows; and once the flag is false the
\* thread ends unless monitoring is started again.
C30_LoopEndsOnlyWhenStopped ==
    /\ [][\A t \in DOMAIN threads :
              threads[t] # "done" /\ threads'[t] = "done"
                  => threads[t] = "loop_test" /\ ~monitoring_active]_vars
    /\ \A t \in 1..LoopRun["start_monitoring"] :
          /\ \A n \in 1..(LoopRun["loop_pass"] - 1) :
                Caught(t, n) ~> (used["loop_pass"] > n \/ ~monitoring_active)
          /\ (Running(t) /\ ~monitoring_active)
                ~> (~Running(t) \/ monitoring_active)

\* a thread that caught an exception has ended after monitoring was stopped
C30_Witness ==
    /\ ~monitoring_active
    /\ threads # <<>>
    /\ \A t \in DOMAIN threads : threads[t] = "done"
    /\ \E i \in DOMAIN error_log : error_log[i].type = "monitoring_error"

(***************************************************************************)
(* Properties of persistence                                               *)
(***************************************************************************)

\* C11: a GoalSystem constructed over the data file after the process ended
\* holds the active and completed lists the old object held.
C11_ReloadedGoalsEqual ==
    [][call' = "restart" => goals' = goals /\ completed_goals' = completed_goals]_vars

====
